---- MODULE Spec2Model ----
(***************************************************************************)
(* Model of selectfilecli (src/src/selectfilecli/file_browser_app.py).     *)
(*                                                                         *)
(* Part 1: CustomDirectoryTree.calculate_directory_size, has_venv and the  *)
(* LRU helper _manage_cache, run against a small file system.              *)
(* Part 2 (at the end): select_file and the FileBrowserApp it runs.        *)
(* Part 3 (after it): one node of the tree, its children and their order.  *)
(*                                                                         *)
(* The recursive walk is modelled with an explicit stack of frames, one    *)
(* frame per active call of calculate_directory_size, so that the states   *)
(* in the middle of a walk are states of the model.  The walk is           *)
(* synchronous: while a frame is on the stack no other operation of the    *)
(* object runs, and the file system changes between top-level calls.       *)
(*                                                                         *)
(* The size limits of the program (500, 1000, 100 and the default          *)
(* max_items of 1000) are scaled down to small values of the same names so *)
(* that full caches, over-deep and over-wide directories are reachable;    *)
(* every operation is written against the name, never the number.          *)
(***************************************************************************)
EXTENDS Integers, Sequences, FiniteSets, TLC

\* ---------------------------------------------------------------- limits
\* file_browser_app.py:117-119, scaled (1000, 500, 100 in the source).
MAX_VENV_CACHE_SIZE == 2
MAX_DIR_CACHE_SIZE == 2
MAX_DIRECTORY_DEPTH == 2
\* Default of the max_items parameter (1000 in the source), scaled.
DEFAULT_MAX_ITEMS == 3

\* Bounds of the exploration.
MaxCalls == 3
MaxVenvCalls == 4
MaxFsChanges == 1
SmallMaxItems == 2

\* ------------------------------------------------------------ file system
\* The tree of names.  A node is a directory entry; its number is its name.
\*   1 root/            2 a/   3 b/   4 loop -> loop
\*   2 a/               5 f1   6 link_to_b -> b    7 extra
\*   3 b/               8 f2   9 link_to_a -> a   10 sub/
\*  10 sub/            11 deep/   12 g
\*  11 deep/           13 h
NumNodes == 13
Nodes == 1..NumNodes
Root == 1
Extra == 7

Parent(n) ==
    CASE n = 1 -> 0
      [] n \in {2, 3, 4} -> 1
      [] n \in {5, 6, 7} -> 2
      [] n \in {8, 9, 10} -> 3
      [] n \in {11, 12} -> 10
      [] OTHER -> 11

\* Where a symbolic link points (0: the node is no link).
Target(n) ==
    CASE n = 4 -> 4
      [] n = 6 -> 3
      [] n = 9 -> 2
      [] OTHER -> 0

Kinds == {"dir", "file", "link", "other", "absent"}

InitKind(n) ==
    CASE n \in {1, 2, 3, 10, 11} -> "dir"
      [] n \in {4, 6, 9} -> "link"
      [] OTHER -> "file"

\* Sizes are distinct powers of two: a total tells which files were counted.
InitSize(n) ==
    CASE n = 5 -> 1
      [] n = 7 -> 2
      [] n = 8 -> 4
      [] n = 12 -> 8
      [] n = 13 -> 16
      [] OTHER -> 0
Grown == 32

VARIABLES
    fs,         \* the file system: kind, size, permissions of every node
    fsChanges,  \* number of file-system changes made so far
    cache,      \* self._dir_size_cache, oldest entry first
    venvCache,  \* self._venv_cache, oldest entry first
    stack,      \* active calls of calculate_directory_size, innermost last
    visited,    \* the visited set of the running top-level call
    listed,     \* real directories iterdir() was called on in this call
    cold,       \* the running (or latest) top-level call began with an empty cache
    last,       \* the latest completed top-level call
    prev,       \* the one completed before it
    calls,      \* number of top-level calculate_directory_size calls started
    venvCalls,  \* number of has_venv calls made
    dirUses,    \* keys _manage_cache was called with on the size cache, in order
    venvUses    \* keys _manage_cache was called with on the venv cache, in order

\* The state of select_file and of the FileBrowserApp it runs (part 2).
VARIABLES
    pc,                  \* select_file: "idle" (not called), "running", "done"
    args,                \* the arguments select_file was called with
    sigint,              \* the SIGINT handler of the process
    original_sigint,     \* select_file's local of that name (line 96)
    sigintBefore,        \* the handler installed when select_file was called
    outcome,             \* what select_file returned or raised
    app,                 \* the FileBrowserApp: "none", "running", "exited", "crashed"
    result,              \* the value the app exited with (app.run() returns it)
    current_path,        \* self.current_path
    navigation_history,  \* self.navigation_history
    history_position,    \* self.history_position (0-based, as in the source)
    is_navigating,       \* self._is_navigating
    current_sort_mode,   \* self.current_sort_mode
    current_sort_order,  \* self.current_sort_order
    dialog,              \* a SortDialog is on the screen stack
    tree,                \* the mounted CustomDirectoryTree (#directory-tree)
    worker,              \* the _replace_tree_worker in flight
    loading,             \* container.loading of #tree-container
    lastCd,              \* the latest navigation request and what _change_directory did with it
    sortedInFlight,      \* the latest sort-dialog confirmation came during a navigation
    keys                 \* number of user inputs handled so far

\* One node of a CustomDirectoryTree and the sort settings of the tree
\* (part 3).
VARIABLES
    tree_sort_mode,      \* self.tree_sort_mode (reactive, line 327)
    tree_sort_order,     \* self.tree_sort_order (reactive, line 328)
    node,                \* the node: its path, node._children, node.is_expanded
    posted,              \* a Tree.NodeExpanded message for the node is queued
    sorted,              \* how the latest sort of the loaded children ended
    nodeOps              \* number of operations made on the node so far

nodeVars == <<tree_sort_mode, tree_sort_order, node, posted, sorted, nodeOps>>
walkVars == <<fs, fsChanges, cache, venvCache, stack, visited, listed, cold,
              last, prev, calls, venvCalls, dirUses, venvUses, nodeVars>>
treeVars == <<cache, venvCache, stack, visited, listed, cold, last, prev,
              calls, venvCalls, dirUses, venvUses, nodeVars>>
appVars == <<pc, args, sigint, original_sigint, sigintBefore, outcome, app,
             result, current_path, navigation_history, history_position,
             is_navigating, current_sort_mode, current_sort_order, dialog,
             tree, worker, loading, lastCd, sortedInFlight, keys>>
vars == <<walkVars, appVars>>

NoCall == [path |-> <<>>, m |-> 0, val |-> 0, tag |-> "none", nlisted |-> 0,
           fsv |-> 0, cold |-> FALSE]

Last(s) == s[Len(s)]
Front(s) == SubSeq(s, 1, Len(s) - 1)

\* The entries of directory node d in listing order (ascending name).
RECURSIVE ChildrenFrom(_, _, _)
ChildrenFrom(f, d, n) ==
    IF n > NumNodes THEN <<>>
    ELSE IF Parent(n) = d /\ f.kind[n] # "absent"
         THEN <<n>> \o ChildrenFrom(f, d, n + 1)
         ELSE ChildrenFrom(f, d, n + 1)
Listing(f, d) == ChildrenFrom(f, d, 1)

\* Path.resolve(): follow the links of the last component.  0 stands for the
\* RuntimeError / OSError of a symlink loop.
RECURSIVE Follow(_, _, _)
Follow(f, n, fuel) ==
    IF f.kind[n] # "link" THEN n
    ELSE IF fuel = 0 THEN 0
    ELSE Follow(f, Target(n), fuel - 1)
Resolve(f, path) == Follow(f, Last(path), NumNodes)

\* Mutant: stat() in place of lstat(), the type of what a link points to.
LstatFollows(f, e) ==
    IF e \in f.noStat \/ Follow(f, e, NumNodes) = 0 THEN "error"
    ELSE f.kind[Follow(f, e, NumNodes)]

\* entry.lstat(): "error" when it raises, else the type of the entry itself.
Lstat(f, e) == IF e \in f.noStat THEN "error" ELSE f.kind[e]

\* dir_path.iterdir(): the entries it yields before it ends or raises.
\* It raises at once for a path that is no directory or may not be read, and
\* after failAt entries when the listing breaks off.
Yield(f, d) ==
    IF d = 0 \/ f.kind[d] # "dir" \/ d \in f.noList THEN <<>>
    ELSE IF f.failAt[d] >= 0 /\ f.failAt[d] < Len(Listing(f, d))
         THEN SubSeq(Listing(f, d), 1, f.failAt[d])
         ELSE Listing(f, d)
Iterdir(f, path) == Yield(f, Resolve(f, path))

\* ------------------------------------------------------------- LRU caches
Keys(c) == {c[i].key : i \in 1..Len(c)}
Has(c, k) == k \in Keys(c)
IndexOf(c, k) == CHOOSE i \in 1..Len(c) : c[i].key = k
Value(c, k) == c[IndexOf(c, k)].val

\* OrderedDict.move_to_end(key)
MoveToEnd(c, k) ==
    LET i == IndexOf(c, k) IN
    SubSeq(c, 1, i - 1) \o SubSeq(c, i + 1, Len(c)) \o <<c[i]>>

\* OrderedDict.popitem(last=False)
PopFirst(c) == Tail(c)

\* Mutant: the value is stored only for a key that is already cached.
SetItemIfPresent(c, k, v) ==
    IF Has(c, k) THEN [c EXCEPT ![IndexOf(c, k)].val = v] ELSE c

\* cache[key] = value: a new key goes to the end, an existing key keeps its place.
SetItem(c, k, v) ==
    IF Has(c, k) THEN [c EXCEPT ![IndexOf(c, k)].val = v]
    ELSE Append(c, [key |-> k, val |-> v])

\* Mutant: a hit does not move the key to the end (first-in first-out).
ManageCacheNoPromote(c, k, max) ==
    IF Has(c, k) THEN c
    ELSE IF Len(c) >= max THEN PopFirst(c)
    ELSE c

\* Mutant: eviction starts one entry too late (> in place of >=).
ManageCacheOffByOne(c, k, max) ==
    IF Has(c, k) THEN MoveToEnd(c, k)
    ELSE IF Len(c) > max THEN PopFirst(c)
    ELSE c

\* CustomDirectoryTree._manage_cache
ManageCache(c, k, max) ==
    IF Has(c, k) THEN MoveToEnd(c, k)
    ELSE IF Len(c) >= max THEN PopFirst(c)
    ELSE c

\* ------------------------------------------------ calculate_directory_size
\* Mutant: the cache is never consulted.
EnterNoCache(f, path, depth, vis, c) ==
    IF depth > MAX_DIRECTORY_DEPTH
    THEN [tag |-> "depth", val |-> 0, vis |-> vis, cache |-> c]
    ELSE IF Resolve(f, path) = 0
    THEN [tag |-> "unresolved", val |-> 0, vis |-> vis, cache |-> c]
    ELSE IF Resolve(f, path) \in vis
    THEN [tag |-> "visited", val |-> 0, vis |-> vis, cache |-> c]
    ELSE [tag |-> "walk", val |-> 0,
          vis |-> vis \cup {Resolve(f, path)}, cache |-> c]

\* Mutant: the depth test is >= in place of >.
EnterDepthOffByOne(f, path, depth, vis, c) ==
    IF depth >= MAX_DIRECTORY_DEPTH
    THEN [tag |-> "depth", val |-> 0, vis |-> vis, cache |-> c]
    ELSE IF Resolve(f, path) = 0
    THEN [tag |-> "unresolved", val |-> 0, vis |-> vis, cache |-> c]
    ELSE IF Resolve(f, path) \in vis
    THEN [tag |-> "visited", val |-> 0, vis |-> vis, cache |-> c]
    ELSE IF Has(c, path)
    THEN [tag |-> "hit", val |-> Value(c, path),
          vis |-> vis \cup {Resolve(f, path)},
          cache |-> ManageCache(c, path, MAX_DIR_CACHE_SIZE)]
    ELSE [tag |-> "walk", val |-> 0,
          vis |-> vis \cup {Resolve(f, path)}, cache |-> c]

\* The head of the function, lines 498-526: what a call does before it
\* starts to list.  tag "walk" means the call goes on to list the directory.
Enter(f, path, depth, vis, c) ==
    IF depth > MAX_DIRECTORY_DEPTH
    THEN [tag |-> "depth", val |-> 0, vis |-> vis, cache |-> c]
    ELSE IF Resolve(f, path) = 0
    THEN [tag |-> "unresolved", val |-> 0, vis |-> vis, cache |-> c]
    ELSE IF Resolve(f, path) \in vis
    THEN [tag |-> "visited", val |-> 0, vis |-> vis, cache |-> c]
    ELSE IF Has(c, path)
    THEN [tag |-> "hit", val |-> Value(c, path),
          vis |-> vis \cup {Resolve(f, path)},
          cache |-> ManageCache(c, path, MAX_DIR_CACHE_SIZE)]
    ELSE [tag |-> "walk", val |-> 0,
          vis |-> vis \cup {Resolve(f, path)}, cache |-> c]

NewFrame(path, depth, m) ==
    [path |-> path, depth |-> depth, m |-> m, items |-> 0, total |-> 0]

\* The literal paths the operations are called with.  <<1, 2, 6>> is
\* root/a/link_to_b, another name of b; <<1, 4>> cannot be resolved.
CallPaths == {<<1>>, <<1, 2>>, <<1, 3>>, <<1, 4>>, <<1, 2, 6>>, <<1, 2, 7>>,
              <<1, 3, 10>>}
VenvPaths == {<<1, 2>>, <<1, 3>>, <<1, 3, 9>>}
MaxItemsChoices == {SmallMaxItems, DEFAULT_MAX_ITEMS}

\* ------------------------------------------------ values of part 2
\* Optional[...] values: None is the empty set, a value x is {x}.
None == {}
Some(x) == {x}

\* file_info.py:36-64, the ten fields of the FileInfo dataclass with their
\* defaults.
FileInfoFields == {"file_path", "folder_path", "last_modified_datetime",
                   "creation_datetime", "size_in_bytes", "readonly",
                   "folder_has_venv", "is_symlink", "symlink_broken",
                   "error_message"}
DefaultInfo == [k \in FileInfoFields |-> None]

\* No tree is mounted under #tree-container (query_one finds none).
NoTree == [root |-> <<>>, mode |-> "name", order |-> "asc", shown |-> {}]
NoWorker == [stage |-> "none", target |-> <<>>]
NoArgs == [start_path |-> <<>>, select_files |-> TRUE, select_dirs |-> FALSE,
           return_info |-> None]
NoOutcome == [kind |-> "pending", path |-> <<>>, info |-> DefaultInfo]
\* by: the handler; called: it called _change_directory; valid, same, busy:
\* new_path was an existing directory, was current_path, _is_navigating was
\* set at the call; changed: the call changed current_path, the history or
\* the position; started: it started a worker.
NoCd == [by |-> "none", called |-> FALSE, new_path |-> <<>>, valid |-> FALSE,
         same |-> FALSE, busy |-> FALSE, changed |-> FALSE, started |-> FALSE,
         cut |-> 0]

\* Before select_file is called: the interpreter's own SIGINT handler is
\* installed and there is no app.
AppNone ==
    /\ pc = "idle"
    /\ args = NoArgs
    /\ sigint = "default_int_handler"
    /\ original_sigint = "default_int_handler"
    /\ sigintBefore = "default_int_handler"
    /\ outcome = NoOutcome
    /\ app = "none"
    /\ result = None
    /\ current_path = <<>>
    /\ navigation_history = <<>>
    /\ history_position = 0
    /\ is_navigating = FALSE
    /\ current_sort_mode = "name"
    /\ current_sort_order = "asc"
    /\ dialog = FALSE
    /\ tree = NoTree
    /\ worker = NoWorker
    /\ loading = FALSE
    /\ lastCd = NoCd
    /\ sortedInFlight = FALSE
    /\ keys = 0

\* A tree with the defaults of lines 327-328 and no node looked at yet.
NoNode == [path |-> <<>>, children |-> <<>>, is_expanded |-> FALSE]
NodeNone ==
    /\ tree_sort_mode = "name"
    /\ tree_sort_order = "asc"
    /\ node = NoNode
    /\ posted = FALSE
    /\ sorted = "none"
    /\ nodeOps = 0

InitFs ==
    [kind |-> [n \in Nodes |-> InitKind(n)],
     size |-> [n \in Nodes |-> InitSize(n)],
     noList |-> {},
     noStat |-> {},
     failAt |-> [n \in Nodes |-> -1]]

Init ==
    /\ fs = InitFs
    /\ fsChanges = 0
    /\ cache = <<>>
    /\ venvCache = <<>>
    /\ stack = <<>>
    /\ visited = {}
    /\ listed = <<>>
    /\ cold = FALSE
    /\ last = NoCall
    /\ prev = NoCall
    /\ calls = 0
    /\ venvCalls = 0
    /\ dirUses = <<>>
    /\ venvUses = <<>>
    /\ AppNone
    /\ NodeNone

Idle == stack = <<>>
Top == Last(stack)

\* Mutant: the visited set of the call before is kept (a shared default).
StaleVisited(vis) == vis

\* lines 499-500: a call without a visited argument starts with a new set.
FreshVisited(vis) == {}

\* The log of _manage_cache calls: a cache hit of Enter calls it with the key.
Logged(log, o, key) == IF o.tag = "hit" THEN Append(log, key) ELSE log

\* A top-level call calculate_directory_size(P, max_items=m): depth 0 and no
\* visited argument.
Call(P, m) ==
    /\ Idle
    /\ calls < MaxCalls
    /\ calls' = calls + 1
    /\ cold' = (cache = <<>>)
    /\ LET o == Enter(fs, P, 0, FreshVisited(visited), cache) IN
        /\ visited' = o.vis
        /\ cache' = o.cache
        /\ dirUses' = Logged(dirUses, o, P)
        /\ IF o.tag = "walk"
           THEN /\ stack' = <<NewFrame(P, 0, m)>>
                /\ listed' = <<Resolve(fs, P)>>
                /\ UNCHANGED <<last, prev>>
           ELSE /\ stack' = <<>>
                /\ listed' = <<>>
                /\ prev' = last
                /\ last' = [path |-> P, m |-> m, val |-> o.val, tag |-> o.tag,
                            nlisted |-> 0, fsv |-> fsChanges,
                            cold |-> (cache = <<>>)]
    /\ UNCHANGED <<fs, fsChanges, venvCache, venvCalls, venvUses>>
    /\ UNCHANGED <<appVars, nodeVars>>

\* Mutant: the limit test is > in place of >=.
MoreOffByOne(fr) ==
    /\ fr.items < Len(Iterdir(fs, fr.path))
    /\ fr.items <= fr.m

\* The loop of lines 531-536 has another entry to process.
More(fr) ==
    /\ fr.items < Len(Iterdir(fs, fr.path))
    /\ fr.items < fr.m
Entry(fr) == Iterdir(fs, fr.path)[fr.items + 1]

\* Mutant: = in place of +=.
CountedOverwrite(fr, add) == [fr EXCEPT !.items = @ + 1, !.total = add]

Counted(fr, add) == [fr EXCEPT !.items = @ + 1, !.total = @ + add]
SetTop(fr) == [stack EXCEPT ![Len(stack)] = fr]

\* lines 540-543: a regular file adds its st_size.
StepFile ==
    /\ ~Idle
    /\ More(Top)
    /\ Lstat(fs, Entry(Top)) = "file"
    /\ stack' = SetTop(Counted(Top, fs.size[Entry(Top)]))
    /\ UNCHANGED <<fs, fsChanges, cache, venvCache, visited, listed, cold, last,
                   prev, calls, venvCalls, dirUses, venvUses>>
    /\ UNCHANGED <<appVars, nodeVars>>

\* line 547: a symbolic link or a special file adds nothing.
StepOther ==
    /\ ~Idle
    /\ More(Top)
    /\ Lstat(fs, Entry(Top)) \in {"link", "other"}
    /\ stack' = SetTop(Counted(Top, 0))
    /\ UNCHANGED <<fs, fsChanges, cache, venvCache, visited, listed, cold, last,
                   prev, calls, venvCalls, dirUses, venvUses>>
    /\ UNCHANGED <<appVars, nodeVars>>

\* Mutant: break in place of continue.
AfterStatErrorBreak(fr) ==
    [fr EXCEPT !.items = IF Len(Iterdir(fs, fr.path)) < fr.m
                         THEN Len(Iterdir(fs, fr.path)) ELSE fr.m]

\* lines 548-550: lstat raised; the entry is skipped and the loop continues.
AfterStatError(fr) == Counted(fr, 0)

StepStatError ==
    /\ ~Idle
    /\ More(Top)
    /\ Lstat(fs, Entry(Top)) = "error"
    /\ stack' = SetTop(AfterStatError(Top))
    /\ UNCHANGED <<fs, fsChanges, cache, venvCache, visited, listed, cold, last,
                   prev, calls, venvCalls, dirUses, venvUses>>
    /\ UNCHANGED <<appVars, nodeVars>>

\* lines 544-546: a directory is handed to a recursive call, which either
\* returns at once (too deep, unresolvable, visited, cached) or starts to list.
StepDir ==
    /\ ~Idle
    /\ More(Top)
    /\ Lstat(fs, Entry(Top)) = "dir"
    /\ LET sub == Append(Top.path, Entry(Top))
           o == Enter(fs, sub, Top.depth + 1, visited, cache)
       IN  /\ visited' = o.vis
           /\ cache' = o.cache
           /\ dirUses' = Logged(dirUses, o, sub)
           /\ IF o.tag = "walk"
              THEN /\ stack' = Append(SetTop(Counted(Top, 0)),
                                      NewFrame(sub, Top.depth + 1, Top.m))
                   /\ listed' = Append(listed, Resolve(fs, sub))
              ELSE /\ stack' = SetTop(Counted(Top, o.val))
                   /\ listed' = listed
    /\ UNCHANGED <<fs, fsChanges, venvCache, cold, last, prev, calls, venvCalls,
                   venvUses>>
    /\ UNCHANGED <<appVars, nodeVars>>

\* lines 551-560: the loop is over (exhausted, broken off at max_items, or
\* iterdir raised); the total is cached and returned to the caller.
Return ==
    /\ ~Idle
    /\ ~More(Top)
    /\ cache' = SetItem(ManageCache(cache, Top.path, MAX_DIR_CACHE_SIZE),
                        Top.path, Top.total)
    /\ dirUses' = Append(dirUses, Top.path)
    /\ IF Len(stack) = 1
       THEN /\ stack' = <<>>
            /\ prev' = last
            /\ last' = [path |-> Top.path, m |-> Top.m, val |-> Top.total,
                        tag |-> "walk", nlisted |-> Len(listed),
                        fsv |-> fsChanges, cold |-> cold]
       ELSE /\ stack' = [SubSeq(stack, 1, Len(stack) - 1)
                           EXCEPT ![Len(stack) - 1].total = @ + Top.total]
            /\ UNCHANGED <<last, prev>>
    /\ UNCHANGED <<fs, fsChanges, venvCache, visited, listed, cold, calls,
                   venvCalls, venvUses>>
    /\ UNCHANGED <<appVars, nodeVars>>

\* ------------------------------------------------------------------ has_venv
IsDir(f, path) == Resolve(f, path) # 0 /\ f.kind[Resolve(f, path)] = "dir"
\* (dir_path / indicator).exists() for some indicator: a/extra plays the
\* indicator file (pyvenv.cfg) of directory a.
HasIndicator(f, path) ==
    /\ Resolve(f, path) = Parent(Extra)
    /\ f.kind[Extra] # "absent"
    /\ Extra \notin f.noStat

HasVenv(P) ==
    /\ Idle
    /\ venvCalls < MaxVenvCalls
    /\ venvCalls' = venvCalls + 1
    /\ venvUses' = Append(venvUses, P)
    /\ IF Has(venvCache, P)
       THEN venvCache' = ManageCache(venvCache, P, MAX_VENV_CACHE_SIZE)
       ELSE venvCache' = SetItem(ManageCache(venvCache, P, MAX_VENV_CACHE_SIZE),
                                 P, IsDir(fs, P) /\ HasIndicator(fs, P))
    /\ UNCHANGED <<fs, fsChanges, cache, stack, visited, listed, cold, last,
                   prev, calls, dirUses>>
    /\ UNCHANGED <<appVars, nodeVars>>

\* ------------------------------------------------- changes of the file system
CanChange == Idle /\ fsChanges < MaxFsChanges

\* A file grows.
FsWrite(n) ==
    /\ CanChange
    /\ fs.kind[n] = "file"
    /\ fs.size[n] < Grown
    /\ fs' = [fs EXCEPT !.size[n] = @ + Grown]
    /\ fsChanges' = fsChanges + 1
    /\ UNCHANGED <<cache, venvCache, stack, visited, listed, cold, last, prev,
                   calls, venvCalls, dirUses, venvUses>>
    /\ UNCHANGED <<appVars, nodeVars>>

\* a/extra is removed, or replaced by an empty directory or a socket.
FsReplace(k) ==
    /\ CanChange
    /\ fs.kind[Extra] # k
    /\ fs' = [fs EXCEPT !.kind[Extra] = k]
    /\ fsChanges' = fsChanges + 1
    /\ UNCHANGED <<cache, venvCache, stack, visited, listed, cold, last, prev,
                   calls, venvCalls, dirUses, venvUses>>
    /\ UNCHANGED <<appVars, nodeVars>>

\* A directory loses its read permission: iterdir raises PermissionError.
FsDenyList(d) ==
    /\ CanChange
    /\ fs.kind[d] = "dir"
    /\ d \notin fs.noList
    /\ fs' = [fs EXCEPT !.noList = @ \cup {d}]
    /\ fsChanges' = fsChanges + 1
    /\ UNCHANGED <<cache, venvCache, stack, visited, listed, cold, last, prev,
                   calls, venvCalls, dirUses, venvUses>>
    /\ UNCHANGED <<appVars, nodeVars>>

\* lstat of an entry starts to fail.
FsDenyStat(e) ==
    /\ CanChange
    /\ e # Root
    /\ e \notin fs.noStat
    /\ fs' = [fs EXCEPT !.noStat = @ \cup {e}]
    /\ fsChanges' = fsChanges + 1
    /\ UNCHANGED <<cache, venvCache, stack, visited, listed, cold, last, prev,
                   calls, venvCalls, dirUses, venvUses>>
    /\ UNCHANGED <<appVars, nodeVars>>

\* The listing of a directory breaks off with an OSError after k entries.
FsBreakListing(d, k) ==
    /\ CanChange
    /\ fs.kind[d] = "dir"
    /\ fs.failAt[d] < 0
    /\ k < Len(Listing(fs, d))
    /\ fs' = [fs EXCEPT !.failAt[d] = k]
    /\ fsChanges' = fsChanges + 1
    /\ UNCHANGED <<cache, venvCache, stack, visited, listed, cold, last, prev,
                   calls, venvCalls, dirUses, venvUses>>
    /\ UNCHANGED <<appVars, nodeVars>>

\* The nodes the changes are made to: f1 and g grow, b and sub become
\* unreadable, lstat fails for f2 and sub, the listing of b breaks off.
Writable == {5, 12}
Deniable == {3, 10}
Unstatable == {8, 10}
Breakable == {3}

Next ==
    \/ \E P \in CallPaths, m \in MaxItemsChoices : Call(P, m)
    \/ StepFile
    \/ StepOther
    \/ StepStatError
    \/ StepDir
    \/ Return
    \/ \E n \in Writable : FsWrite(n)
    \/ \E k \in {"absent", "dir", "other"} : FsReplace(k)
    \/ \E d \in Deniable : FsDenyList(d)
    \/ \E e \in Unstatable : FsDenyStat(e)
    \/ \E d \in Breakable, k \in 1..2 : FsBreakListing(d, k)

Spec == Init /\ [][Next]_vars

\* The walk always takes its next step: the call is synchronous.
WalkStep == StepFile \/ StepOther \/ StepStatError \/ StepDir \/ Return

\* The calls are made on root, a, b and a/link_to_b, each of which has the
\* cycle below it.
CyclePaths == {<<1>>, <<1, 2>>, <<1, 3>>, <<1, 2, 6>>}
CycleNext ==
    \/ \E P \in CyclePaths, m \in MaxItemsChoices : Call(P, m)
    \/ StepFile
    \/ StepOther
    \/ StepDir
    \/ Return
CycleSpec == Init /\ [][CycleNext]_vars /\ WF_vars(WalkStep)

\* Both caches at work on the unchanging initial structure.
CacheNext ==
    \/ \E P \in CyclePaths, m \in MaxItemsChoices : Call(P, m)
    \/ StepFile
    \/ StepOther
    \/ StepDir
    \/ Return
    \/ \E P \in VenvPaths : HasVenv(P)
CacheSpec == Init /\ [][CacheNext]_vars

\* Top-level calls as the program makes them (lines 601, 1255: max_items
\* left at its default) on the unchanging initial structure.
MemoPaths == {<<1>>, <<1, 2>>, <<1, 3>>, <<1, 2, 6>>, <<1, 3, 10>>}
MemoNext ==
    \/ \E P \in MemoPaths : Call(P, DEFAULT_MAX_ITEMS)
    \/ StepFile
    \/ StepOther
    \/ StepDir
    \/ Return
MemoSpec == Init /\ [][MemoNext]_vars

\* ============================================================== properties
\* What the file system holds, independently of any walk.
RECURSIVE InTree(_, _, _)
\* Node n lies in the tree of real directories below directory d.
InTree(f, n, d) ==
    \/ n = d
    \/ /\ Parent(n) # 0
       /\ f.kind[n] # "absent"
       /\ f.kind[Parent(n)] = "dir"
       /\ InTree(f, Parent(n), d)

RealDirs(f, d) == {n \in Nodes : f.kind[n] = "dir" /\ InTree(f, n, d)}

RECURSIVE RelDepth(_, _)
RelDepth(n, d) == IF n = d \/ Parent(n) = 0 THEN 0 ELSE 1 + RelDepth(Parent(n), d)

RECURSIVE SumSizes(_, _)
SumSizes(f, S) ==
    IF S = {} THEN 0
    ELSE LET n == CHOOSE x \in S : TRUE IN f.size[n] + SumSizes(f, S \ {n})

RegularFilesIn(f, D) == {n \in Nodes : f.kind[n] = "file" /\ Parent(n) \in D}
SubtreeSum(f, d) == SumSizes(f, RegularFilesIn(f, RealDirs(f, d)))

MaxOf(S) == IF S = {} THEN 0 ELSE CHOOSE x \in S : \A y \in S : y <= x
Height(f, d) == MaxOf({RelDepth(n, d) : n \in RealDirs(f, d)})
Breadth(f, d) == MaxOf({Len(Listing(f, n)) : n \in RealDirs(f, d)})

NoErrors(f) ==
    /\ f.noList = {}
    /\ f.noStat = {}
    /\ \A n \in Nodes : f.failAt[n] < 0

\* The latest top-level call listed its directory itself, began with an
\* empty cache, and the file system is as it was during the call.
ColdWalk ==
    /\ Idle
    /\ last.tag = "walk"
    /\ last.cold
    /\ last.fsv = fsChanges
LastDir == Resolve(fs, last.path)
WithinLimits ==
    /\ Breadth(fs, LastDir) <= last.m
    /\ Height(fs, LastDir) <= MAX_DIRECTORY_DEPTH

\* The tree below d holds a link l to a directory t whose own tree holds a
\* link back to a directory above l (a/link_to_b -> b, b/link_to_a -> a).
LinkCycleBelow(f, d) ==
    \E l, k \in Nodes :
        /\ f.kind[l] = "link" /\ f.kind[k] = "link"
        /\ InTree(f, l, d)
        /\ Follow(f, l, NumNodes) # 0
        /\ InTree(f, k, Follow(f, l, NumNodes))
        /\ Follow(f, k, NumNodes) # 0
        /\ InTree(f, l, Follow(f, k, NumNodes))

\* ---- C1
\* No recursive call is ever made for a symbolic link: every frame below the
\* top-level one is for an entry that is itself a directory.
C1_NoLinkDescent ==
    \A i \in 2..Len(stack) : fs.kind[Last(stack[i].path)] = "dir"

\* A walk over a structure with a symbolic-link cycle never returns more than
\* the regular files of the real directories hold, and exactly their sum when
\* nothing is cut off by an error or a limit.
C1_RealFilesOnly ==
    (ColdWalk /\ fs.kind[LastDir] = "dir" /\ LinkCycleBelow(fs, LastDir)) =>
        /\ last.val <= SubtreeSum(fs, LastDir)
        /\ (NoErrors(fs) /\ WithinLimits) => last.val = SubtreeSum(fs, LastDir)

\* C1: with symbolic-link cycles in the structure, every top-level call
\* terminates, never descends into a symbolic link, and returns the sum of
\* the regular files of the real directories.
C1_CycleTerminates ==
    /\ [](C1_NoLinkDescent /\ C1_RealFilesOnly)
    /\ (~Idle ~> Idle)

\* A walk of the tree with the cycle has ended: root/ with a/link_to_b and
\* b/link_to_a, both passed over, the files of a and b counted.
C1_Witness ==
    /\ ColdWalk
    /\ last.path = <<Root>>
    /\ LinkCycleBelow(fs, Root)
    /\ NoErrors(fs)
    /\ last.m = DEFAULT_MAX_ITEMS
    /\ Len(listed) >= 3
    /\ last.val > 0

\* ---- C2
C2_Pre ==
    /\ ColdWalk
    /\ fs.kind[LastDir] = "dir"
    /\ NoErrors(fs)
    /\ WithinLimits

\* C2: from an empty cache, without I/O errors and within the breadth and
\* depth limits, the call returns the sum of st_size over all regular files
\* of the whole subtree.
C2_RecursiveSum == C2_Pre => last.val = SubtreeSum(fs, LastDir)

\* Three nesting levels were summed (b/f2 + b/sub/g + b/sub/deep/h).
C2_Witness ==
    /\ C2_Pre
    /\ Height(fs, LastDir) = 2
    /\ last.val = SubtreeSum(fs, LastDir)
    /\ last.val > fs.size[8]

\* ---- what a walk without any cache finds
PosIn(seq, n) == IF \E i \in 1..Len(seq) : seq[i] = n
                 THEN CHOOSE i \in 1..Len(seq) : seq[i] = n
                 ELSE 0

RECURSIVE Examined(_, _, _, _)
\* Directory p is listed by a walk that starts at d with max_items m.
ListedBy(f, p, d, m) ==
    \/ p = d
    \/ /\ Examined(f, p, d, m)
       /\ Lstat(f, p) = "dir"
       /\ RelDepth(p, d) <= MAX_DIRECTORY_DEPTH
\* Entry n is reached by the loop of that walk.
Examined(f, n, d, m) ==
    /\ n # d
    /\ Parent(n) # 0
    /\ InTree(f, n, d)
    /\ PosIn(Yield(f, Parent(n)), n) \in 1..m
    /\ ListedBy(f, Parent(n), d, m)

Expected(f, d, m) ==
    SumSizes(f, {n \in Nodes : Examined(f, n, d, m) /\ Lstat(f, n) = "file"})

ListedSet == {listed[i] : i \in 1..Len(listed)}

\* ---- C3
\* (original statement) Whatever fails, the call returns a non-negative
\* integer; an unresolvable path gives 0; an unreadable directory contributes
\* 0 to its parent and a direct call on it returns 0.
C3_Original ==
    /\ last.val >= 0
    /\ (last.tag # "none" /\ LastDir = 0) => last.val = 0
    /\ (Idle /\ last.tag # "none" /\ last.fsv = fsChanges /\ LastDir # 0
          /\ LastDir \in fs.noList) => last.val = 0

\* C3 (amended): the call always returns a non-negative integer; an
\* unresolvable path gives 0; a directory that cannot be listed and has no
\* cache entry gives 0 when called directly and adds only what was counted
\* before the failure; an entry whose lstat fails adds 0 and its siblings are
\* still counted.
C3_ErrorsContained ==
    /\ last.val >= 0
    /\ \A i \in 1..Len(stack) : stack[i].total >= 0
    /\ (last.tag # "none" /\ LastDir = 0) => last.val = 0
    /\ \A i \in 1..Len(stack) :
          /\ stack[i].items <= Len(Iterdir(fs, stack[i].path))
          /\ Iterdir(fs, stack[i].path) = <<>> => stack[i].total = 0
    /\ (Idle /\ last.tag = "walk" /\ last.fsv = fsChanges
          /\ Yield(fs, LastDir) = <<>>) => last.val = 0
    /\ ColdWalk => last.val = Expected(fs, LastDir, last.m)

\* A walk met a failure below its directory (an unreadable subdirectory, a
\* failing lstat or a broken listing) and still counted the siblings.
C3_Witness ==
    /\ ColdWalk
    /\ ~NoErrors(fs)
    /\ \E n \in Nodes :
          /\ n # LastDir
          /\ InTree(fs, n, LastDir)
          /\ \/ n \in fs.noStat
             \/ n \in fs.noList /\ n \in ListedSet
             \/ fs.failAt[n] >= 0 /\ n \in ListedSet
    /\ last.val > 0
    /\ last.val < SubtreeSum(fs, LastDir)

\* ---- C4
SameCallTwice ==
    /\ prev.tag # "none"
    /\ last.path = prev.path
    /\ last.fsv = prev.fsv

\* (original statement) The second of two consecutive calls on P returns the
\* same value, lists nothing and is answered from the cache entry of P.
C4_Original ==
    SameCallTwice =>
        /\ last.val = prev.val
        /\ last.nlisted = 0
        /\ last.tag = "hit"

\* C4 (amended): the second of two consecutive calls on P, the file system
\* unchanged, returns the same value and lists no directory; it is answered
\* from the cache entry stored under P when P can be canonicalized, and is 0
\* with no cache entry involved when it cannot.
C4_RepeatedCall ==
    SameCallTwice =>
        /\ last.val = prev.val
        /\ last.nlisted = 0
        /\ last.tag = IF Resolve(fs, last.path) = 0 THEN "unresolved" ELSE "hit"
        /\ Resolve(fs, last.path) = 0 => ~Has(cache, last.path) /\ last.val = 0

\* A walk of P that listed directories, then the same call answered from
\* the cache.
C4_Witness ==
    /\ SameCallTwice
    /\ prev.tag = "walk"
    /\ prev.nlisted >= 2
    /\ last.tag = "hit"
    /\ last.val > 0

\* ---- C5
\* The place of the latest use of key k in a log of uses (0: never used).
LastUse(log, k) == MaxOf({i \in 1..Len(log) : log[i] = k})
\* The cached key whose latest use is the oldest.
Oldest(c, log) ==
    CHOOSE k \in Keys(c) : \A j \in Keys(c) : LastUse(log, k) <= LastUse(log, j)

\* The entries of a cache lie in the order of their latest use.
RecencyOrder(c, log) ==
    \A i, j \in 1..Len(c) :
        i < j => LastUse(log, c[i].key) < LastUse(log, c[j].key)

\* One use of key k (hit, or _manage_cache followed by the store) takes the
\* cache from c to d as least-recently-used order demands.
LruStep(c, d, log, k, max) ==
    /\ Last(d).key = k
    /\ IF Has(c, k) THEN Keys(d) = Keys(c) /\ Len(d) = Len(c)
       ELSE IF Len(c) >= max
       THEN Keys(d) = (Keys(c) \ {Oldest(c, log)}) \cup {k} /\ Len(d) = Len(c)
       ELSE Keys(d) = Keys(c) \cup {k} /\ Len(d) = Len(c) + 1

LruAction ==
    /\ IF dirUses' # dirUses
       THEN LruStep(cache, cache', dirUses, Last(dirUses'), MAX_DIR_CACHE_SIZE)
       ELSE cache' = cache
    /\ IF venvUses' # venvUses
       THEN LruStep(venvCache, venvCache', venvUses, Last(venvUses'),
                    MAX_VENV_CACHE_SIZE)
       ELSE venvCache' = venvCache

\* C5: both caches are in least-recently-used order; a new key put into a
\* full cache evicts exactly the entry used longest ago, a hit moves its key
\* to the most-recent end and evicts nothing.
C5_LruOrder ==
    /\ [](RecencyOrder(cache, dirUses) /\ RecencyOrder(venvCache, venvUses))
    /\ [][LruAction]_vars

\* In each cache a key that was hit again stayed while a key used before
\* that hit, and not since, was evicted.
HitProtected(c, log) ==
    \E k \in Keys(c), e \in {log[i] : i \in 1..Len(log)} :
        /\ ~Has(c, e)
        /\ Cardinality({i \in 1..Len(log) : log[i] = k}) >= 2
        /\ \E i \in 1..Len(log) : log[i] = k /\ i < LastUse(log, e)
C5_Witness ==
    /\ HitProtected(cache, dirUses)
    /\ HitProtected(venvCache, venvUses)

\* ---- C6
\* C6: in every state, also in the middle of a walk, the size cache holds at
\* most MAX_DIR_CACHE_SIZE entries and the venv cache at most
\* MAX_VENV_CACHE_SIZE.
C6_CachesBounded ==
    /\ Len(cache) <= MAX_DIR_CACHE_SIZE
    /\ Len(venvCache) <= MAX_VENV_CACHE_SIZE
    /\ Cardinality(Keys(cache)) = Len(cache)
    /\ Cardinality(Keys(venvCache)) = Len(venvCache)

\* In the middle of a walk both caches are full and both have evicted.
C6_Witness ==
    /\ ~Idle
    /\ Len(cache) = MAX_DIR_CACHE_SIZE
    /\ Len(venvCache) = MAX_VENV_CACHE_SIZE
    /\ \E i \in 1..Len(dirUses) : ~Has(cache, dirUses[i])
    /\ \E i \in 1..Len(venvUses) : ~Has(venvCache, venvUses[i])

\* ---- C7
\* The path of the top-level call that a step starts.
CalledPath == IF stack' # <<>> THEN stack'[1].path ELSE last'.path

\* C7: a top-level call on a path that has a cache entry returns the cached
\* total and leaves the entry as it is, whatever the file system holds now.
C7_StaleServed ==
    [][(calls' = calls + 1 /\ Has(cache, CalledPath)) =>
          /\ stack' = <<>>
          /\ last'.tag = "hit"
          /\ last'.val = Value(cache, CalledPath)
          /\ Has(cache', CalledPath)
          /\ Value(cache', CalledPath) = Value(cache, CalledPath)]_vars

\* A total cached by a walk was returned again after the directory changed,
\* although a new walk would now return another value.
C7_Witness ==
    /\ Idle
    /\ last.tag = "hit"
    /\ prev.tag = "walk"
    /\ prev.cold
    /\ prev.path = last.path
    /\ prev.m = last.m
    /\ prev.fsv < last.fsv
    /\ last.fsv = fsChanges
    /\ last.val = prev.val
    /\ last.val # Expected(fs, LastDir, last.m)

\* ---- C8
AtMostDeep(f, d, k) == {n \in RealDirs(f, d) : RelDepth(n, d) <= k}

\* The frames are at depth 0, 1, 2, ... and none is deeper than the limit;
\* a walk that nothing else cuts lists exactly the directories at depth
\* 0..MAX_DIRECTORY_DEPTH and returns the sum of their regular files.
C8_Depths ==
    /\ \A i \in 1..Len(stack) :
          /\ stack[i].depth = i - 1
          /\ stack[i].depth <= MAX_DIRECTORY_DEPTH
    /\ (ColdWalk /\ fs.kind[LastDir] = "dir" /\ NoErrors(fs)
          /\ Breadth(fs, LastDir) <= last.m) =>
          /\ ListedSet = AtMostDeep(fs, LastDir, MAX_DIRECTORY_DEPTH)
          /\ last.val = SumSizes(fs, RegularFilesIn(fs, ListedSet))

\* The step for a directory entry: deeper than the limit, the entry is passed
\* over with nothing added; within the limit the depth is no reason to pass
\* it over (a new, uncached directory is listed).
C8_Step ==
    (~Idle /\ More(Top) /\ Lstat(fs, Entry(Top)) = "dir") =>
        LET sub == Append(Top.path, Entry(Top)) IN
        IF Top.depth + 1 > MAX_DIRECTORY_DEPTH
        THEN /\ stack' = SetTop(Counted(Top, 0))
             /\ listed' = listed
             /\ cache' = cache
             /\ visited' = visited
        ELSE (Resolve(fs, sub) \notin visited /\ ~Has(cache, sub)) =>
                 /\ Len(stack') = Len(stack) + 1
                 /\ Last(stack').depth = Top.depth + 1
                 /\ listed' = Append(listed, Resolve(fs, sub))

\* C8: with the top-level directory at depth 0, a directory deeper than
\* MAX_DIRECTORY_DEPTH is not listed and adds 0 to the total, and the
\* directories at depth 0..MAX_DIRECTORY_DEPTH are walked.
C8_DepthBound == []C8_Depths /\ [][C8_Step]_vars

\* From root/, b/sub at depth MAX_DIRECTORY_DEPTH was listed and b/sub/deep,
\* one level further down, was not: its file is missing from the total.
C8_Witness ==
    /\ ColdWalk
    /\ NoErrors(fs)
    /\ Breadth(fs, LastDir) <= last.m
    /\ \E n \in ListedSet : RelDepth(n, LastDir) = MAX_DIRECTORY_DEPTH
    /\ \E n \in RealDirs(fs, LastDir) :
          /\ RelDepth(n, LastDir) = MAX_DIRECTORY_DEPTH + 1
          /\ n \notin ListedSet
          /\ RegularFilesIn(fs, {n}) # {}
    /\ last.val < SubtreeSum(fs, LastDir)

\* ---- C9
RECURSIVE WithinFirst(_, _, _, _)
\* Entry n and every directory between d and n are among the first m
\* entries of their directory.
WithinFirst(f, n, d, m) ==
    \/ n = d
    \/ /\ PosIn(Listing(f, Parent(n)), n) \in 1..m
       /\ f.kind[Parent(n)] = "dir"
       /\ WithinFirst(f, Parent(n), d, m)

\* No directory has more than max_items entries examined; when nothing else
\* cuts the walk, the total is the sum of the regular files among the first
\* max_items entries of each directory reached through such entries, and
\* only those directories are listed.
C9_Counts ==
    /\ \A i \in 1..Len(stack) : stack[i].items <= stack[i].m
    /\ (ColdWalk /\ fs.kind[LastDir] = "dir" /\ NoErrors(fs)
          /\ Height(fs, LastDir) <= MAX_DIRECTORY_DEPTH) =>
          /\ last.val = SumSizes(fs, {n \in Nodes :
                            /\ fs.kind[n] = "file"
                            /\ InTree(fs, n, LastDir)
                            /\ WithinFirst(fs, n, LastDir, last.m)})
          /\ ListedSet = {n \in RealDirs(fs, LastDir) :
                            WithinFirst(fs, n, LastDir, last.m)}

\* Every entry examined, of whatever type, counts one; at max_items the
\* directory is left and nothing more is listed for it; the count of a newly
\* entered directory starts at 0.
C9_Step ==
    /\ (~Idle /\ More(Top)) =>
          stack'[Len(stack)].items = Top.items + 1
    /\ (~Idle /\ Top.items >= Top.m) =>
          /\ Len(stack') = Len(stack) - 1
          /\ listed' = listed
    /\ Len(stack') > Len(stack) => Last(stack').items = 0

\* C9: in each directory at most max_items entries are examined, in listing
\* order and of every type; later entries add nothing and are not descended
\* into; the count restarts at 0 in every directory.
C9_BreadthBound == []C9_Counts /\ [][C9_Step]_vars

\* In b/ the limit was reached after f2 and link_to_a: sub/, the third entry,
\* was not descended into.
C9_Witness ==
    /\ ColdWalk
    /\ NoErrors(fs)
    /\ Height(fs, LastDir) <= MAX_DIRECTORY_DEPTH
    /\ Len(Listing(fs, LastDir)) > last.m
    /\ \E n \in RealDirs(fs, LastDir) :
          /\ Parent(n) = LastDir
          /\ PosIn(Listing(fs, LastDir), n) > last.m
          /\ n \notin ListedSet
    /\ \E e \in Nodes :
          /\ PosIn(Listing(fs, LastDir), e) \in 1..last.m
          /\ fs.kind[e] = "link"
    /\ last.val > 0

\* ---- C10
NoDuplicates(seq) == \A i, j \in 1..Len(seq) : seq[i] = seq[j] => i = j

\* C10: no directory is listed twice in one top-level call; a call for a
\* directory already in the visited set returns 0 without listing and without
\* touching the cache, cached or not; and each top-level call starts from an
\* empty visited set, so no top-level call is ever cut short as visited.
C10_VisitedOnce ==
    /\ NoDuplicates(listed)
    /\ ~Idle => ListedSet \subseteq visited
    /\ (Len(stack) = 1 /\ stack[1].items = 0) =>
          visited = {Resolve(fs, stack[1].path)}
    /\ last.tag # "visited"
    /\ \A P \in CallPaths :
          Resolve(fs, P) # 0 =>
              Enter(fs, P, 1, {Resolve(fs, P)}, cache) =
                  [tag |-> "visited", val |-> 0,
                   vis |-> {Resolve(fs, P)}, cache |-> cache]

\* A directory listed by one top-level call was listed again by the next
\* one, under another name (b, then a/link_to_b).
C10_Witness ==
    /\ Idle
    /\ prev.tag = "walk"
    /\ last.tag = "walk"
    /\ last.path # prev.path
    /\ Resolve(fs, last.path) = Resolve(fs, prev.path)
    /\ last.nlisted >= 2
    /\ \E P \in CallPaths : Has(cache, P)

\* ======================================================================
\* Part 2: select_file (src/src/selectfilecli/__init__.py) and the
\* FileBrowserApp it runs (file_browser_app.py:1019-1513), on the same file
\* system.  One action per handler; the tree-replacement worker is split at
\* its two awaits, where the event loop may run other handlers.
\* ======================================================================

\* self.max_history_size (line 1141: 50), scaled.
max_history_size == 3

\* Bounds of the exploration of part 2.
MaxKeys == 4
MaxPathLen == 3

\* The six modes of SortMode are represented by two of them.
SortModes == {"name", "size"}
SortOrders == {"asc", "desc"}

\* os.getcwd(), Path.home() and Path("/").
Cwd == <<Root>>
Home == <<1, 2>>
RootPath == <<Root>>

\* ------------------------------------------------------------- pathlib
\* Path.parent: the parent of the root is the root itself.
ParentPath(p) == IF Len(p) <= 1 THEN p ELSE SubSeq(p, 1, Len(p) - 1)

\* Path.resolve() of an existing path: the path of the real node.
RECURSIVE RealPath(_)
RealPath(n) == IF Parent(n) = 0 THEN <<n>> ELSE Append(RealPath(Parent(n)), n)

\* A stat on the path raises PermissionError.
StatRaises(f, p) == \E i \in 1..Len(p) : p[i] \in f.noStat

\* Path.exists(), os.path.exists(): links are followed.
PathExists(f, p) ==
    /\ p # <<>>
    /\ \A i \in 1..Len(p) :
          /\ f.kind[p[i]] # "absent"
          /\ Follow(f, p[i], NumNodes) # 0
          /\ f.kind[Follow(f, p[i], NumNodes)] # "absent"
          /\ i < Len(p) => f.kind[Follow(f, p[i], NumNodes)] = "dir"
PathIsDir(f, p) == PathExists(f, p) /\ f.kind[Resolve(f, p)] = "dir"
PathIsFile(f, p) == PathExists(f, p) /\ f.kind[Resolve(f, p)] = "file"

\* path.lstat(): the text of the OSError it raises, "" when it succeeds.
\* The last component is not followed.
LstatError(f, p) ==
    IF StatRaises(f, p) THEN "Permission denied"
    ELSE IF f.kind[Last(p)] = "absent" \/ ~PathExists(f, ParentPath(p))
    THEN "No such file or directory"
    ELSE ""

\* os.access(path, os.W_OK): a directory stripped of its permissions
\* (chmod 0o000) is not writable, nor is what cannot be reached.
Access(f, p) == PathExists(f, p) /\ Resolve(f, p) \notin f.noList

\* What the tree's calculate_directory_size(path) returns for the app: the
\* total of a walk with the default max_items.
DirSize(f, p) ==
    IF Resolve(f, p) = 0 THEN 0
    ELSE Expected(f, Resolve(f, p), DEFAULT_MAX_ITEMS)

\* ------------------------------------------------------------ FileInfo
\* Mutant: the cancellation carries an (empty) error message.
CancelInfoWithMessage == [DefaultInfo EXCEPT !.error_message = Some("")]

\* The explicit all-None FileInfo of action_quit, lines 1293-1304.
CancelInfo ==
    [file_path |-> None, folder_path |-> None,
     last_modified_datetime |-> None, creation_datetime |-> None,
     size_in_bytes |-> None, readonly |-> None, folder_has_venv |-> None,
     is_symlink |-> None, symlink_broken |-> None, error_message |-> None]

\* FileInfo.as_tuple() and the test of select_file line 111.
AllNone(info) == \A k \in FileInfoFields : info[k] = None

\* FileInfo.path: file_path or folder_path (a Path is always truthy).
InfoPath(info) ==
    IF info.file_path # None THEN info.file_path ELSE info.folder_path

\* Mutant: the failure result carries no path.
ErrorInfoNoPath(p, is_file, msg) ==
    [DefaultInfo EXCEPT !.error_message = Some(msg)]

\* lines 1237-1245: the FileInfo of a failure.
ErrorInfo(p, is_file, msg) ==
    [DefaultInfo EXCEPT
        !.file_path = IF is_file THEN Some(p) ELSE None,
        !.folder_path = IF is_file THEN None ELSE Some(p),
        !.error_message = Some(msg)]

\* Mutant: folder_has_venv is computed for files too.
GoodInfoVenvAlways(f, p, is_file) ==
    [file_path |-> IF is_file THEN Some(p) ELSE None,
     folder_path |-> IF is_file THEN None ELSE Some(p),
     last_modified_datetime |-> Some(Last(p)),
     creation_datetime |-> Some(Last(p)),
     size_in_bytes |-> Some(IF is_file THEN f.size[Last(p)] ELSE DirSize(f, p)),
     readonly |-> Some(~Access(f, p)),
     folder_has_venv |-> Some(IsDir(f, p) /\ HasIndicator(f, p)),
     is_symlink |-> Some(f.kind[Last(p)] = "link"),
     symlink_broken |-> Some(f.kind[Last(p)] = "link" /\ ~PathExists(f, p)),
     error_message |-> None]

\* lines 1212-1233: the FileInfo of a path whose lstat succeeded.  The time
\* stamps of an entry are represented by its node.
GoodInfo(f, p, is_file) ==
    [file_path |-> IF is_file THEN Some(p) ELSE None,
     folder_path |-> IF is_file THEN None ELSE Some(p),
     last_modified_datetime |-> Some(Last(p)),
     creation_datetime |-> Some(Last(p)),
     size_in_bytes |-> Some(IF is_file THEN f.size[Last(p)] ELSE DirSize(f, p)),
     readonly |-> Some(~Access(f, p)),
     folder_has_venv |-> IF is_file THEN None
                         ELSE Some(IsDir(f, p) /\ HasIndicator(f, p)),
     is_symlink |-> Some(f.kind[Last(p)] = "link"),
     symlink_broken |-> Some(f.kind[Last(p)] = "link" /\ ~PathExists(f, p)),
     error_message |-> None]

\* FileBrowserApp._create_file_info: the FileInfo the app exits with.
CreateFileInfo(f, p, is_file) ==
    IF LstatError(f, p) # "" THEN ErrorInfo(p, is_file, LstatError(f, p))
    ELSE GoodInfo(f, p, is_file)

\* ------------------------------------------------------- groups of state
callVars == <<pc, args, sigint, original_sigint, sigintBefore, outcome>>
navVars == <<current_path, navigation_history, history_position,
             is_navigating, worker, loading, lastCd>>
sortVars == <<current_sort_mode, current_sort_order, sortedInFlight>>

\* The navigation state of the app as _change_directory finds it.
Nav == [current_path |-> current_path,
        navigation_history |-> navigation_history,
        history_position |-> history_position,
        is_navigating |-> is_navigating]

\* The nodes a tree rooted at root shows once its root has been loaded.
ShownAt(f, root) ==
    {root} \cup
    {q \in {Append(root, c) : c \in {n \in Nodes : /\ Resolve(f, root) # 0
                                                  /\ Parent(n) = Resolve(f, root)
                                                  /\ f.kind[n] # "absent"}} :
        Len(q) <= MaxPathLen}

\* CustomDirectoryTree(str(path)): reactive defaults of lines 327-328.
NewTree(f, root, mode, order) ==
    [root |-> root, mode |-> mode, order |-> order, shown |-> ShownAt(f, root)]

\* ----------------------------------------------------------- select_file
\* Mutant: the start path is not tested for readability.
ArgErrorNoReadable(f, a) ==
    IF a.start_path # <<>> /\ ~PathIsDir(f, a.start_path)
    THEN "Start path must be a valid directory"
    ELSE IF ~a.select_files /\ ~a.select_dirs
    THEN "At least one of select_files or select_dirs must be True"
    ELSE ""

\* lines 73-83: the text of the ValueError, "" for valid arguments.
ArgError(f, a) ==
    IF a.start_path # <<>> /\ ~PathIsDir(f, a.start_path)
    THEN "Start path must be a valid directory"
    ELSE IF a.start_path # <<>> /\ ~Access(f, a.start_path)
    THEN "Start path must be readable"
    ELSE IF ~a.select_files /\ ~a.select_dirs
    THEN "At least one of select_files or select_dirs must be True"
    ELSE ""

\* FileBrowserApp.__init__, lines 1115-1129: the resolved start path.
StartPath(f, a) ==
    IF a.start_path = <<>> THEN Cwd ELSE RealPath(Resolve(f, a.start_path))

\* lines 86-88.
ReturnInfo(a) ==
    IF a.return_info = None THEN a.select_dirs ELSE a.return_info = Some(TRUE)

\* The process installs another SIGINT handler before it calls select_file.
SignalSignal(h) ==
    /\ pc = "idle"
    /\ sigint # h
    /\ sigint' = h
    /\ UNCHANGED <<pc, args, original_sigint, sigintBefore, outcome, app,
                   result, tree, dialog, keys>>
    /\ UNCHANGED <<navVars, sortVars, walkVars>>

\* select_file(**a) up to app.run(), lines 73-100: validation, the signal
\* handler, FileBrowserApp.__init__, compose and on_mount.
SelectFile(a) ==
    /\ pc = "idle"
    /\ args' = a
    /\ sigintBefore' = sigint
    /\ IF ArgError(fs, a) # ""
       THEN /\ pc' = "done"
            /\ outcome' = [NoOutcome EXCEPT !.kind = "ValueError"]
            /\ UNCHANGED <<sigint, original_sigint, app, current_path,
                           navigation_history, tree>>
       ELSE /\ pc' = "running"
            /\ original_sigint' = sigint
            /\ sigint' = "signal_handler"
            /\ app' = "running"
            /\ current_path' = StartPath(fs, a)
            /\ navigation_history' = <<StartPath(fs, a)>>
            /\ tree' = NewTree(fs, StartPath(fs, a), "name", "asc")
            /\ UNCHANGED outcome
    /\ UNCHANGED <<result, history_position, is_navigating, worker, loading,
                   lastCd, sortVars, dialog, keys, walkVars>>

\* lines 105-122: what select_file returns for the result of app.run().
ReturnValue(a, res) ==
    IF res = None THEN [NoOutcome EXCEPT !.kind = "None"]
    ELSE LET info == CHOOSE i \in res : TRUE IN
         IF AllNone(info) THEN [NoOutcome EXCEPT !.kind = "None"]
         ELSE IF ~ReturnInfo(a)
         THEN [NoOutcome EXCEPT !.kind = "str",
                                !.path = CHOOSE q \in InfoPath(info) : TRUE]
         ELSE [NoOutcome EXCEPT !.kind = "FileInfo", !.info = info]

\* Mutant: the handler of select_file is left installed.
RestoredNot(h) == sigint

\* lines 101-103: signal.signal(signal.SIGINT, original_sigint).
Restored(h) == h

\* app.run() returned: the finally clause and lines 105-122.
SelectFileReturn ==
    /\ pc = "running"
    /\ app = "exited"
    /\ pc' = "done"
    /\ sigint' = Restored(original_sigint)
    /\ outcome' = ReturnValue(args, result)
    /\ UNCHANGED <<args, original_sigint, sigintBefore, app, result, tree,
                   dialog, keys, navVars, sortVars, walkVars>>

\* A handler of the app raised: app.run() ends without a result, or with the
\* exception, as the framework chooses.
SelectFileCrashed(raises) ==
    /\ pc = "running"
    /\ app = "crashed"
    /\ pc' = "done"
    /\ sigint' = Restored(original_sigint)
    /\ outcome' = IF raises THEN [NoOutcome EXCEPT !.kind = "Exception"]
                  ELSE ReturnValue(args, None)
    /\ UNCHANGED <<args, original_sigint, sigintBefore, app, result, tree,
                   dialog, keys, navVars, sortVars, walkVars>>

\* SIGINT arrives while the app runs: signal_handler (lines 91-93) raises
\* SystemExit, which leaves select_file through the finally clause.
Sigint ==
    /\ pc = "running"
    /\ app = "running"
    /\ sigint = "signal_handler"
    /\ pc' = "done"
    /\ app' = "crashed"
    /\ sigint' = Restored(original_sigint)
    /\ outcome' = [NoOutcome EXCEPT !.kind = "SystemExit"]
    /\ UNCHANGED <<args, original_sigint, sigintBefore, result, tree, dialog,
                   keys, navVars, sortVars, walkVars>>

\* ------------------------------------------------------- FileBrowserApp
\* An input reaches a handler of the app.
Input ==
    /\ app = "running"
    /\ keys < MaxKeys
    /\ keys' = keys + 1

\* self.exit(info)
Exit(info) == app' = "exited" /\ result' = Some(info)
\* An exception leaves the handler.
Crash == app' = "crashed" /\ UNCHANGED result

\* Mutant: a request made during a navigation is accepted.
ChangeDirectoryNoGuard(f, n, new_path, add) ==
    IF StatRaises(f, new_path)
    THEN [nav |-> n, started |-> FALSE, raised |-> TRUE]
    ELSE IF ~PathExists(f, new_path) \/ ~PathIsDir(f, new_path)
    THEN [nav |-> n, started |-> FALSE, raised |-> FALSE]
    ELSE IF new_path = n.current_path
    THEN [nav |-> n, started |-> FALSE, raised |-> FALSE]
    ELSE [nav |-> [n EXCEPT !.is_navigating = TRUE,
                            !.current_path = new_path],
          started |-> TRUE, raised |-> FALSE]

\* Mutant: the request is not compared with the current directory.
ChangeDirectoryNoSameTest(f, n, new_path, add) ==
    IF StatRaises(f, new_path)
    THEN [nav |-> n, started |-> FALSE, raised |-> TRUE]
    ELSE IF ~PathExists(f, new_path) \/ ~PathIsDir(f, new_path)
    THEN [nav |-> n, started |-> FALSE, raised |-> FALSE]
    ELSE IF n.is_navigating
    THEN [nav |-> n, started |-> FALSE, raised |-> FALSE]
    ELSE [nav |-> [n EXCEPT !.is_navigating = TRUE,
                            !.current_path = new_path],
          started |-> TRUE, raised |-> FALSE]

\* Mutant: the forward history is kept.
HistoryKeepForward(n, new_path, add) ==
    IF ~add THEN n
    ELSE LET app1 == Append(n.navigation_history, new_path)
         IN IF Len(app1) > max_history_size
            THEN [n EXCEPT !.navigation_history = Tail(app1)]
            ELSE [n EXCEPT !.navigation_history = app1,
                           !.history_position = @ + 1]

\* Mutant: the history is not limited in size.
HistoryNoLimit(n, new_path, add) ==
    IF ~add THEN n
    ELSE LET cut == IF n.history_position < Len(n.navigation_history) - 1
                    THEN SubSeq(n.navigation_history, 1,
                                n.history_position + 1)
                    ELSE n.navigation_history
         IN [n EXCEPT !.navigation_history = Append(cut, new_path),
                      !.history_position = @ + 1]

\* lines 1443-1456: the history after an accepted request.
History(n, new_path, add) ==
    IF ~add THEN n
    ELSE LET cut == IF n.history_position < Len(n.navigation_history) - 1
                    THEN SubSeq(n.navigation_history, 1,
                                n.history_position + 1)
                    ELSE n.navigation_history
             app1 == Append(cut, new_path)
         IN IF Len(app1) > max_history_size
            THEN [n EXCEPT !.navigation_history = Tail(app1)]
            ELSE [n EXCEPT !.navigation_history = app1,
                           !.history_position = @ + 1]

\* FileBrowserApp._change_directory(new_path, add_to_history) called in
\* navigation state n: the state it leaves, whether it started a worker,
\* and whether exists()/is_dir() raised.
ChangeDirectory(f, n, new_path, add) ==
    IF StatRaises(f, new_path)
    THEN [nav |-> n, started |-> FALSE, raised |-> TRUE]
    ELSE IF ~PathExists(f, new_path) \/ ~PathIsDir(f, new_path)
    THEN [nav |-> n, started |-> FALSE, raised |-> FALSE]
    ELSE IF new_path = n.current_path
    THEN [nav |-> n, started |-> FALSE, raised |-> FALSE]
    ELSE IF n.is_navigating
    THEN [nav |-> n, started |-> FALSE, raised |-> FALSE]
    ELSE [nav |-> History([n EXCEPT !.is_navigating = TRUE,
                                    !.current_path = new_path],
                          new_path, add),
          started |-> TRUE, raised |-> FALSE]

\* Handler by calls _change_directory in navigation state n.
Navigate(by, n, new_path, add) ==
    LET o == ChangeDirectory(fs, n, new_path, add) IN
    /\ current_path' = o.nav.current_path
    /\ navigation_history' = o.nav.navigation_history
    /\ history_position' = o.nav.history_position
    /\ is_navigating' = o.nav.is_navigating
    /\ worker' = IF o.started THEN [stage |-> "queued", target |-> new_path]
                 ELSE worker
    /\ loading' = IF o.started THEN TRUE ELSE loading
    /\ lastCd' = [by |-> by, called |-> TRUE, new_path |-> new_path,
                  valid |-> PathIsDir(fs, new_path),
                  same |-> (new_path = n.current_path),
                  busy |-> n.is_navigating,
                  changed |-> (o.nav # n), started |-> o.started,
                  cut |-> IF o.started /\ add
                          THEN Len(n.navigation_history) - 1
                                  - n.history_position
                          ELSE 0]
    /\ IF o.raised THEN Crash ELSE UNCHANGED <<app, result>>

\* action_go_parent (u, backspace, the Parent button).
ActionGoParent ==
    /\ Input
    /\ ~dialog
    /\ IF ParentPath(current_path) # current_path
       THEN Navigate("go_parent", Nav, ParentPath(current_path), TRUE)
       ELSE /\ lastCd' = [NoCd EXCEPT !.by = "go_parent"]
            /\ UNCHANGED <<current_path, navigation_history,
                           history_position, is_navigating, worker, loading,
                           app, result>>
    /\ UNCHANGED <<callVars, sortVars, dialog, tree, walkVars>>

\* action_go_home (h, the Home button).
ActionGoHome ==
    /\ Input
    /\ ~dialog
    /\ Navigate("go_home", Nav, Home, TRUE)
    /\ UNCHANGED <<callVars, sortVars, dialog, tree, walkVars>>

\* action_go_root / on_root_button (r, the Root button), the Unix branch.
ActionGoRoot ==
    /\ Input
    /\ ~dialog
    /\ Navigate("go_root", Nav, RootPath, TRUE)
    /\ UNCHANGED <<callVars, sortVars, dialog, tree, walkVars>>

\* action_go_back (alt+left, the Back button).
ActionGoBack ==
    /\ Input
    /\ ~dialog
    /\ IF history_position > 0
       THEN Navigate("go_back", [Nav EXCEPT !.history_position = @ - 1],
                     navigation_history[history_position], FALSE)
       ELSE /\ lastCd' = [NoCd EXCEPT !.by = "go_back"]
            /\ UNCHANGED <<current_path, navigation_history,
                           history_position, is_navigating, worker, loading,
                           app, result>>
    /\ UNCHANGED <<callVars, sortVars, dialog, tree, walkVars>>

\* action_go_forward (alt+right, the Forward button).
ActionGoForward ==
    /\ Input
    /\ ~dialog
    /\ IF history_position < Len(navigation_history) - 1
       THEN Navigate("go_forward", [Nav EXCEPT !.history_position = @ + 1],
                     navigation_history[history_position + 2], FALSE)
       ELSE /\ lastCd' = [NoCd EXCEPT !.by = "go_forward"]
            /\ UNCHANGED <<current_path, navigation_history,
                           history_position, is_navigating, worker, loading,
                           app, result>>
    /\ UNCHANGED <<callVars, sortVars, dialog, tree, walkVars>>

\* action_navigate_or_select with the cursor on p.  query_one raises when
\* no tree is mounted; is_dir() raises when the stat is refused.
ActionNavigateOrSelect(p) ==
    /\ Input
    /\ ~dialog
    /\ tree # NoTree => p \in tree.shown
    /\ IF tree = NoTree \/ StatRaises(fs, p)
       THEN Crash /\ UNCHANGED navVars
       ELSE IF PathIsDir(fs, p)
       THEN Navigate("enter", Nav, p, TRUE)
       ELSE IF PathIsFile(fs, p) /\ args.select_files
       THEN Exit(CreateFileInfo(fs, p, TRUE)) /\ UNCHANGED navVars
       ELSE UNCHANGED <<navVars, app, result>>
    /\ UNCHANGED <<callVars, sortVars, dialog, tree, walkVars>>

\* action_select_current_directory (d) with the cursor on p.  gone: the
\* directory is removed after path.is_dir() (line 1347) has answered and
\* before _create_file_info reads it.
ActionSelectCurrentDirectory(p, gone) ==
    /\ Input
    /\ ~dialog
    /\ tree # NoTree => p \in tree.shown
    /\ gone => /\ CanChange
               /\ args.select_dirs
               /\ tree # NoTree
               /\ ~StatRaises(fs, p)
               /\ PathIsDir(fs, p)
               /\ Len(p) > 1
    /\ fs' = IF gone THEN [fs EXCEPT !.kind[Last(p)] = "absent"] ELSE fs
    /\ fsChanges' = IF gone THEN fsChanges + 1 ELSE fsChanges
    /\ IF ~args.select_dirs
       THEN UNCHANGED <<app, result>>
       ELSE IF tree = NoTree \/ StatRaises(fs, p)
       THEN Crash
       ELSE IF PathIsDir(fs, p)
       THEN Exit(CreateFileInfo(fs', p, FALSE))
       ELSE UNCHANGED <<app, result>>
    /\ UNCHANGED <<callVars, navVars, sortVars, dialog, tree, treeVars>>

\* Mutant: on_file_selected does not test select_files.
OnFileSelectedNoGate(p) ==
    /\ Input
    /\ ~dialog
    /\ p \in tree.shown
    /\ StatRaises(fs, p) \/ ~PathIsDir(fs, p)
    /\ Exit(CreateFileInfo(fs, p, TRUE))
    /\ UNCHANGED <<callVars, navVars, sortVars, dialog, tree, walkVars>>

\* on_file_selected: the tree reports the selection of the file node p.
OnFileSelected(p) ==
    /\ Input
    /\ ~dialog
    /\ p \in tree.shown
    /\ StatRaises(fs, p) \/ ~PathIsDir(fs, p)
    /\ IF args.select_files
       THEN Exit(CreateFileInfo(fs, p, TRUE))
       ELSE UNCHANGED <<app, result>>
    /\ UNCHANGED <<callVars, navVars, sortVars, dialog, tree, walkVars>>

\* action_quit (q, bound with priority: it also runs over the sort dialog).
ActionQuit ==
    /\ Input
    /\ Exit(CancelInfo)
    /\ UNCHANGED <<callVars, navVars, sortVars, dialog, tree, walkVars>>

\* The escape key: SortDialog.on_key (lines 319-321) dismisses an open
\* dialog with None and stops the event; otherwise the binding of line 1077
\* runs action_quit.
KeyEscape ==
    /\ Input
    /\ IF dialog
       THEN dialog' = FALSE /\ UNCHANGED <<app, result>>
       ELSE Exit(CancelInfo) /\ UNCHANGED dialog
    /\ UNCHANGED <<callVars, navVars, sortVars, tree, walkVars>>

\* action_show_sort_dialog (s): the dialog is pushed.
ActionShowSortDialog ==
    /\ Input
    /\ ~dialog
    /\ dialog' = TRUE
    /\ UNCHANGED <<callVars, navVars, sortVars, tree, app, result, walkVars>>

\* lines 1316-1318: set_sort_mode and set_sort_order on the mounted tree.
DialogTree(t, mode, order) == [t EXCEPT !.mode = mode, !.order = order]

\* The dialog is confirmed (OK, enter): handle_dialog_result with the pair.
DialogSubmit(mode, order) ==
    /\ Input
    /\ dialog
    /\ dialog' = FALSE
    /\ current_sort_mode' = mode
    /\ current_sort_order' = order
    /\ sortedInFlight' = is_navigating
    /\ IF tree = NoTree
       THEN Crash /\ UNCHANGED tree
       ELSE tree' = DialogTree(tree, mode, order) /\ UNCHANGED <<app, result>>
    /\ UNCHANGED <<callVars, navVars, walkVars>>

\* The dialog is cancelled with its Cancel button: handle_dialog_result(None).
DialogCancel ==
    /\ Input
    /\ dialog
    /\ dialog' = FALSE
    /\ UNCHANGED <<callVars, navVars, sortVars, tree, app, result, walkVars>>

\* ---- _replace_tree_worker(target_path), lines 1472-1507
\* lines 1481-1489: the old tree is removed (first await).
WorkerRemove ==
    /\ app = "running"
    /\ worker.stage = "queued"
    /\ worker' = [worker EXCEPT !.stage = "removed"]
    /\ tree' = NoTree
    /\ UNCHANGED <<callVars, current_path, navigation_history,
                   history_position, is_navigating, loading, lastCd,
                   sortVars, dialog, app, result, keys, walkVars>>

\* Mutant: the new tree is rooted at self.current_path's parent.
WorkerRootWrong(target) == ParentPath(target)

\* line 1492: the new tree is rooted at the target path the worker was given.
WorkerRoot(target) == target

\* Mutant: the new tree keeps the default sort settings.
WorkerSortDefault(mode, order) == [mode |-> "name", order |-> "asc"]

\* lines 1493-1494: the new tree takes the sort settings of the app.
WorkerSort(mode, order) == [mode |-> mode, order |-> order]

\* lines 1491-1499: the new tree is created and mounted (second await).
WorkerMount ==
    /\ app = "running"
    /\ worker.stage = "removed"
    /\ worker' = [worker EXCEPT !.stage = "mounting"]
    /\ tree' = NewTree(fs, WorkerRoot(worker.target),
                       WorkerSort(current_sort_mode, current_sort_order).mode,
                       WorkerSort(current_sort_mode, current_sort_order).order)
    /\ UNCHANGED <<callVars, current_path, navigation_history,
                   history_position, is_navigating, loading, lastCd,
                   sortVars, dialog, app, result, keys, walkVars>>

\* Mutant: the finally clause leaves _is_navigating set.
WorkerFinallyKeepsFlag(n) == n

\* line 1507: the finally clause resets _is_navigating.
WorkerFinally(n) == FALSE

\* lines 1501-1507: focus, then the finally clause.
WorkerFinish ==
    /\ app = "running"
    /\ worker.stage = "mounting"
    /\ worker' = NoWorker
    /\ loading' = FALSE
    /\ is_navigating' = WorkerFinally(is_navigating)
    /\ UNCHANGED <<callVars, current_path, navigation_history,
                   history_position, lastCd, sortVars, dialog, tree, app,
                   result, keys, walkVars>>

\* line 1499 raises (container.mount): the finally clause runs with no tree
\* mounted.
WorkerRaise ==
    /\ app = "running"
    /\ worker.stage = "removed"
    /\ worker' = NoWorker
    /\ loading' = FALSE
    /\ is_navigating' = WorkerFinally(is_navigating)
    /\ UNCHANGED <<callVars, current_path, navigation_history,
                   history_position, lastCd, sortVars, dialog, tree, app,
                   result, keys, walkVars>>

\* The worker is cancelled at one of its awaits (lines 1486, 1499):
\* CancelledError is no Exception, so it passes line 1487 and the finally
\* clause runs.
WorkerCancel ==
    /\ app = "running"
    /\ worker.stage \in {"queued", "mounting"}
    /\ worker' = NoWorker
    /\ loading' = FALSE
    /\ is_navigating' = WorkerFinally(is_navigating)
    /\ UNCHANGED <<callVars, current_path, navigation_history,
                   history_position, lastCd, sortVars, dialog, tree, app,
                   result, keys, walkVars>>

\* ---- the file system under the app
\* Directory b is removed, or replaced by a file of the same name.
FsSwap(d, k) ==
    /\ CanChange
    /\ fs.kind[d] = "dir"
    /\ fs' = [fs EXCEPT !.kind[d] = k]
    /\ fsChanges' = fsChanges + 1
    /\ UNCHANGED <<treeVars, appVars>>

\* The directory that changes under the app (b), and the entry whose stat fails.
Swappable == {3}
AppUnstatable == {8}

\* The calls the app is started with, and the handlers of SIGINT a process
\* may have installed.
StartPaths == {<<>>, <<1, 2, 6>>, <<1, 2, 5>>}
ReturnInfos == {None, Some(TRUE), Some(FALSE)}
ArgChoices == [start_path : StartPaths, select_files : BOOLEAN,
               select_dirs : BOOLEAN, return_info : ReturnInfos]
AppArgs == {a \in ArgChoices : a.start_path = <<>> /\ a.return_info = None}
Handlers == {"default_int_handler", "SIG_IGN", "SIG_DFL", "user_handler"}
\* The paths a cursor can be on: the nodes of the trees the app can mount.
TreeRoots == {<<1>>, <<1, 2>>, <<1, 3>>, <<1, 2, 6>>, <<1, 3, 9>>, <<1, 3, 10>>}
CursorPaths == UNION {ShownAt(InitFs, r) : r \in TreeRoots}

\* The app at work: every handler, the worker and a changing file system.
AppNext ==
    \/ \E a \in AppArgs : SelectFile(a)
    \/ SelectFileReturn
    \/ \E raises \in BOOLEAN : SelectFileCrashed(raises)
    \/ ActionGoParent
    \/ ActionGoHome
    \/ ActionGoRoot
    \/ ActionGoBack
    \/ ActionGoForward
    \/ \E p \in CursorPaths : ActionNavigateOrSelect(p)
    \/ \E p \in CursorPaths, gone \in BOOLEAN :
          ActionSelectCurrentDirectory(p, gone)
    \/ \E p \in CursorPaths : OnFileSelected(p)
    \/ ActionQuit
    \/ KeyEscape
    \/ ActionShowSortDialog
    \/ \E mode \in SortModes, order \in SortOrders : DialogSubmit(mode, order)
    \/ DialogCancel
    \/ WorkerRemove
    \/ WorkerMount
    \/ WorkerFinish
    \/ \E d \in Swappable, k \in {"absent", "file"} : FsSwap(d, k)
    \/ \E e \in AppUnstatable : FsDenyStat(e)
AppSpec == Init /\ [][AppNext]_vars

\* select_file from call to return: every combination of arguments and
\* handlers; the app selects or is cancelled without navigating.
ApiNext ==
    \/ \E h \in Handlers : SignalSignal(h)
    \/ \E a \in ArgChoices : SelectFile(a)
    \/ SelectFileReturn
    \/ \E raises \in BOOLEAN : SelectFileCrashed(raises)
    \/ Sigint
    \/ \E p \in CursorPaths : ActionNavigateOrSelect(p)
    \/ \E p \in CursorPaths, gone \in BOOLEAN :
          ActionSelectCurrentDirectory(p, gone)
    \/ \E p \in CursorPaths : OnFileSelected(p)
    \/ ActionQuit
    \/ \E d \in Swappable, k \in {"absent", "file"} : FsSwap(d, k)
    \/ \E d \in Deniable : FsDenyList(d)
    \/ \E e \in AppUnstatable : FsDenyStat(e)
ApiSpec == Init /\ [][ApiNext]_vars

\* Navigation alone, with a tree replacement that may also raise or be
\* cancelled.  The event loop runs a started worker to its end while the
\* app is running: each of its steps is weakly fair.
LiveNext ==
    \/ \E a \in AppArgs : SelectFile(a)
    \/ ActionGoParent
    \/ ActionGoHome
    \/ ActionGoRoot
    \/ ActionGoBack
    \/ ActionGoForward
    \/ \E p \in CursorPaths : ActionNavigateOrSelect(p)
    \/ ActionQuit
    \/ WorkerRemove
    \/ WorkerMount
    \/ WorkerFinish
    \/ WorkerRaise
    \/ WorkerCancel
    \/ \E d \in Swappable, k \in {"absent", "file"} : FsSwap(d, k)

LiveSpec ==
    /\ Init
    /\ [][LiveNext]_vars
    /\ WF_vars(WorkerRemove)
    /\ WF_vars(WorkerMount)
    /\ WF_vars(WorkerFinish)

\* ================================================== part 3: one tree node
\* Bound of the exploration.
MaxNodeOps == 4

\* SortMode (lines 139-147) and a value that is none of its members.
TreeSortModes == {"name", "created", "accessed", "modified", "size",
                  "extension", "unknown"}
\* line 114
DEFAULT_DIR_SIZE == 0

\* What the entries carry besides kind and size; none of it changes.
\* name.lower(): the alphabetical rank of the names of the table above.
LowerName(n) ==
    CASE n = 2 -> 1   [] n = 3 -> 2   [] n = 11 -> 3  [] n = 7 -> 4
      [] n = 5 -> 5   [] n = 8 -> 6   [] n = 12 -> 7  [] n = 13 -> 8
      [] n = 9 -> 9   [] n = 6 -> 10  [] n = 4 -> 11  [] n = 1 -> 12
      [] OTHER -> 13
\* suffix.lower(): 0 is the empty suffix; f1, f2 and h are taken to end in
\* ".txt" (2), extra and g in ".cfg" (1).
Suffix(n) ==
    CASE n \in {5, 8, 13} -> 2
      [] n \in {7, 12} -> 1
      [] OTHER -> 0
\* st_ctime, st_atime, st_mtime: three different orders of the entries.
Ctime(n) == n
Atime(n) == NumNodes + 1 - n
Mtime(n) == (n * 5) % (NumNodes + 1)

\* A child of the node: its label and its data (None for a placeholder).
\* Label 0 is "<empty>"; the label of an entry is its name.
Placeholder == [label |-> 0, data |-> None]
Child(path, n) == [label |-> n, data |-> Some(Append(path, n))]
DataPath(c) == CHOOSE q \in c.data : TRUE

\* A sort key: Python compares str with str and numbers with numbers.
StrKey(v) == [t |-> "str", v |-> v]
NumKey(v) == [t |-> "num", v |-> v]

\* lines 859-869: the key of path p, whose lstat succeeded, in a mode.
SortKey(f, p, mode) ==
    CASE mode = "name" -> StrKey(LowerName(Last(p)))
      [] mode = "created" -> NumKey(Ctime(Last(p)))
      [] mode = "accessed" -> NumKey(Atime(Last(p)))
      [] mode = "modified" -> NumKey(Mtime(Last(p)))
      [] mode = "size" -> NumKey(IF PathIsFile(f, p) THEN f.size[Last(p)]
                                 ELSE DEFAULT_DIR_SIZE)
      [] mode = "extension" -> StrKey(IF PathIsFile(f, p) THEN Suffix(Last(p))
                                     ELSE 0)
      [] OTHER -> StrKey(LowerName(Last(p)))

\* lines 856-874: the triple (child, sort_key, is_dir) of a child with data;
\* when lstat, is_file or is_dir raises OSError the key is the lower-cased
\* label and the child counts as no directory.
InfoOf(f, c, mode) ==
    IF LstatError(f, DataPath(c)) # ""
    THEN [child |-> c, key |-> StrKey(LowerName(c.label)), is_dir |-> FALSE]
    ELSE [child |-> c, key |-> SortKey(f, DataPath(c), mode),
          is_dir |-> PathIsDir(f, DataPath(c))]

\* lines 847-874: children_info; placeholders (no data) are skipped.
HasData(c) == c.data # None
ChildrenInfo(f, children, mode) ==
    LET kept == SelectSeq(children, HasData)
    IN [i \in 1..Len(kept) |-> InfoOf(f, kept[i], mode)]

\* The key of line 878, (not x[2], x[1]), compared as Python compares
\* tuples: False sorts before True, then the sort keys decide.
KeyLt(a, b) ==
    \/ a.is_dir /\ ~b.is_dir
    \/ a.is_dir = b.is_dir /\ a.key.v < b.key.v

\* list.sort raises TypeError when it has to compare a str with a number:
\* two triples with the same first component and keys of different types.
SortRaises(info) ==
    \E i, j \in 1..Len(info) :
        /\ info[i].is_dir = info[j].is_dir
        /\ info[i].key.t # info[j].key.t

\* list.sort(key=..., reverse=...): stable; reverse=True keeps the order of
\* equal elements, as if the list were reversed before and after.
RECURSIVE Insert(_, _)
Insert(s, x) ==
    IF s = <<>> THEN <<x>>
    ELSE IF KeyLt(x, Head(s)) THEN <<x>> \o s
    ELSE <<Head(s)>> \o Insert(Tail(s), x)
RECURSIVE StableSort(_)
StableSort(s) ==
    IF s = <<>> THEN <<>> ELSE Insert(StableSort(Front(s)), Last(s))
Reverse(s) == [i \in 1..Len(s) |-> s[Len(s) + 1 - i]]
ListSort(s, reverse) ==
    IF reverse THEN Reverse(StableSort(Reverse(s))) ELSE StableSort(s)

\* sort_children_by_mode(node), lines 840-885: the children it leaves and
\* how it ends.
SortChildrenByMode(f, nd, mode, order) ==
    IF nd.children = <<>>
    THEN [children |-> nd.children, sorted |-> "returned"]
    ELSE LET info == ChildrenInfo(f, nd.children, mode) IN
         IF SortRaises(info)
         THEN [children |-> nd.children, sorted |-> "TypeError"]
         ELSE LET done == ListSort(info, order = "desc")
              IN [children |-> [i \in 1..Len(done) |-> done[i].child],
                  sorted |-> "returned"]

\* One more operation on the node.
NodeOp ==
    /\ nodeOps < MaxNodeOps
    /\ nodeOps' = nodeOps + 1

\* The frame of the operations on the node.
NodeFrame ==
    UNCHANGED <<fs, fsChanges, cache, venvCache, stack, visited, listed, cold,
                last, prev, calls, venvCalls, dirUses, venvUses, appVars>>

\* The node is sorted with the settings the step leaves.
SortNode(mode, order) ==
    LET o == SortChildrenByMode(fs, node, mode, order) IN
    /\ node' = [node EXCEPT !.children = o.children]
    /\ sorted' = o.sorted

\* node.expand() on a collapsed node, as the user's click or key makes it:
\* the node is marked expanded and Tree.NodeExpanded is posted; its content
\* is loaded afterwards.
ExpandNode(P) ==
    /\ NodeOp
    /\ node.path \in {<<>>, P}
    /\ PathIsDir(fs, P)
    /\ ~node.is_expanded
    /\ node' = [node EXCEPT !.path = P, !.is_expanded = TRUE]
    /\ posted' = TRUE
    /\ UNCHANGED <<tree_sort_mode, tree_sort_order, sorted>>
    /\ NodeFrame

\* _populate_node(node, content), lines 952-985, with the content of the
\* directory as the loader lists it; the node is expanded already, or it is
\* expanded by line 984 (the root, loaded before anyone expanded it).
PopulateNode(P) ==
    /\ NodeOp
    /\ node.path \in {<<>>, P}
    /\ PathIsDir(fs, P)
    /\ ~StatRaises(fs, P)
    /\ LET content == Iterdir(fs, P) IN
       node' = [path |-> P,
                children |-> IF content = <<>> THEN <<Placeholder>>
                             ELSE [i \in 1..Len(content) |->
                                      Child(P, content[i])],
                is_expanded |-> TRUE]
    /\ posted' = (posted \/ ~node.is_expanded)
    /\ sorted' = "none"
    /\ UNCHANGED <<tree_sort_mode, tree_sort_order>>
    /\ NodeFrame

\* on_tree_node_expanded(event), lines 945-950.
OnTreeNodeExpanded ==
    /\ NodeOp
    /\ posted
    /\ posted' = FALSE
    /\ IF node.children # <<>>
       THEN SortNode(tree_sort_mode, tree_sort_order)
       ELSE UNCHANGED <<node, sorted>>
    /\ UNCHANGED <<tree_sort_mode, tree_sort_order>>
    /\ NodeFrame

\* refresh_sorting(), lines 909-925: every expanded node is sorted.
RefreshSorting(mode, order) ==
    IF node.is_expanded
    THEN SortNode(mode, order)
    ELSE UNCHANGED <<node, sorted>>

\* A call of refresh_sorting from outside (on_mount, line 891).
ActionRefreshSorting ==
    /\ NodeOp
    /\ node.path # <<>>
    /\ RefreshSorting(tree_sort_mode, tree_sort_order)
    /\ UNCHANGED <<tree_sort_mode, tree_sort_order, posted>>
    /\ NodeFrame

\* set_sort_mode(mode), lines 901-903: the reactive attribute is assigned
\* and its watcher (lines 893-895) runs when the value changed.
SetSortMode(mode) ==
    /\ NodeOp
    /\ node.path # <<>>
    /\ tree_sort_mode' = mode
    /\ IF mode # tree_sort_mode
       THEN RefreshSorting(mode, tree_sort_order)
       ELSE UNCHANGED <<node, sorted>>
    /\ UNCHANGED <<tree_sort_order, posted>>
    /\ NodeFrame

\* set_sort_order(order), lines 905-907 and the watcher of lines 897-899.
SetSortOrder(order) ==
    /\ NodeOp
    /\ node.path # <<>>
    /\ tree_sort_order' = order
    /\ IF order # tree_sort_order
       THEN RefreshSorting(tree_sort_mode, order)
       ELSE UNCHANGED <<node, sorted>>
    /\ UNCHANGED <<tree_sort_mode, posted>>
    /\ NodeFrame

\* FileBrowserApp.on_directory_selected, lines 1185-1206: the node is
\* collapsed, or expanded and sorted at once.
OnDirectorySelected ==
    /\ NodeOp
    /\ node.path # <<>>
    /\ ~StatRaises(fs, node.path)
    /\ PathIsDir(fs, node.path)
    /\ IF node.is_expanded
       THEN /\ node' = [node EXCEPT !.is_expanded = FALSE]
            /\ UNCHANGED <<sorted, posted>>
       ELSE LET o == SortChildrenByMode(fs, node, tree_sort_mode,
                                        tree_sort_order) IN
            /\ node' = [node EXCEPT !.is_expanded = TRUE,
                                    !.children = o.children]
            /\ sorted' = o.sorted
            /\ posted' = TRUE
    /\ UNCHANGED <<tree_sort_mode, tree_sort_order>>
    /\ NodeFrame

\* The nodes looked at: a, b and a/extra (an empty directory once extra has
\* been replaced by one).
NodePaths == {<<1, 2>>, <<1, 3>>, <<1, 2, 7>>}

SortNext ==
    \/ \E P \in NodePaths : ExpandNode(P)
    \/ \E P \in NodePaths : PopulateNode(P)
    \/ OnTreeNodeExpanded
    \/ ActionRefreshSorting
    \/ \E mode \in TreeSortModes : SetSortMode(mode)
    \/ \E order \in SortOrders : SetSortOrder(order)
    \/ OnDirectorySelected
    \/ \E k \in {"absent", "dir"} : FsReplace(k)
    \/ \E e \in Unstatable : FsDenyStat(e)
    \/ \E n \in Writable : FsWrite(n)
SortSpec == Init /\ [][SortNext]_vars

\* ============================================== properties of part 2
\* The FileInfo the app exited with.
ResultInfo == CHOOSE i \in result : TRUE
Selected == app = "exited" /\ result # None /\ ~AllNone(ResultInfo)

\* The fields every successful selection sets.
CommonFields == {"last_modified_datetime", "creation_datetime",
                 "size_in_bytes", "readonly", "is_symlink", "symlink_broken"}

\* res is the result of a successful selection of the file p.
FileSuccess(res, p) ==
    /\ res # None
    /\ \A i \in res :
          /\ i.file_path = Some(p)
          /\ i.folder_path = None
          /\ i.folder_has_venv = None
          /\ i.error_message = None
          /\ \A k \in CommonFields : i[k] # None

\* res is the result of a successful selection of the folder p.
FolderSuccess(res, p) ==
    /\ res # None
    /\ \A i \in res :
          /\ i.folder_path = Some(p)
          /\ i.folder_has_venv # None
          /\ i.file_path = None
          /\ i.error_message = None
          /\ \A k \in CommonFields : i[k] # None

\* The step is a selection of p as a file, as a folder.
SelectsFile(p) ==
    /\ OnFileSelected(p) \/ ActionNavigateOrSelect(p)
    /\ app' = "exited"
SelectsFolder(p) ==
    /\ \E gone \in BOOLEAN : ActionSelectCurrentDirectory(p, gone)
    /\ app' = "exited"

\* ---- C11
C11_Shape ==
    (Selected /\ ResultInfo.error_message = None) =>
        /\ (ResultInfo.file_path = None) # (ResultInfo.folder_path = None)
        /\ ResultInfo.file_path # None => ResultInfo.folder_has_venv = None
        /\ ResultInfo.folder_path # None => ResultInfo.folder_has_venv # None
        /\ \A k \in CommonFields : ResultInfo[k] # None

C11_Step ==
    app' = "exited" => \A p \in CursorPaths :
        /\ (SelectsFile(p) /\ LstatError(fs', p) = "") => FileSuccess(result', p)
        /\ (SelectsFolder(p) /\ LstatError(fs', p) = "")
              => FolderSuccess(result', p)

\* C11: every result of a successful selection has exactly one of file_path
\* and folder_path set: a selected file sets file_path and leaves
\* folder_path and folder_has_venv None, a selected folder sets folder_path
\* and folder_has_venv and leaves file_path None; in both cases
\* error_message is None and the time stamps, size, readonly, is_symlink
\* and symlink_broken are set.
C11_SuccessShape == []C11_Shape /\ [][C11_Step]_vars

\* The folder a (with its indicator file) was selected in a tree rooted at
\* the root: 3 bytes, a virtual environment, no link.
C11_Witness ==
    /\ Selected
    /\ ResultInfo.folder_path = Some(<<1, 2>>)
    /\ ResultInfo.folder_has_venv = Some(TRUE)
    /\ ResultInfo.size_in_bytes = Some(3)
    /\ ResultInfo.is_symlink = Some(FALSE)
    /\ ResultInfo.error_message = None

\* ---- C12
\* res is the result of a failed selection of p with failure text msg.
Failure(res, p, is_file, msg) ==
    /\ res # None
    /\ \A i \in res :
          /\ i.error_message = Some(msg)
          /\ i.file_path = IF is_file THEN Some(p) ELSE None
          /\ i.folder_path = IF is_file THEN None ELSE Some(p)
          /\ \A k \in CommonFields \cup {"folder_has_venv"} : i[k] = None

C12_Step ==
    keys' # keys => \A p \in CursorPaths :
        /\ (OnFileSelected(p) /\ args.select_files /\ LstatError(fs', p) # "")
              => /\ app' = "exited"
                 /\ Failure(result', p, TRUE, LstatError(fs', p))
        /\ (SelectsFolder(p) /\ LstatError(fs', p) # "")
              => Failure(result', p, FALSE, LstatError(fs', p))

C12_Shape ==
    (Selected /\ ResultInfo.error_message # None) =>
        /\ (ResultInfo.file_path = None) # (ResultInfo.folder_path = None)
        /\ \A k \in CommonFields \cup {"folder_has_venv"} : ResultInfo[k] = None

\* C12: when gathering the metadata of the chosen path fails, the app exits
\* with a result whose error_message is the failure description and whose
\* path field for the chosen kind is set, all eight other fields being
\* None; the failure does not leave the handler as an exception.
C12_FailureShape == []C12_Shape /\ [][C12_Step]_vars

\* A folder that vanished under the cursor was selected.
C12_Witness ==
    /\ Selected
    /\ ResultInfo.error_message = Some("No such file or directory")
    /\ ResultInfo.folder_path # None
    /\ ResultInfo.file_path = None

\* ---- C13
\* The step exits the app with the all-None result.
Cancels ==
    /\ app' = "exited"
    /\ result' # None
    /\ \A i \in result' : AllNone(i)

\* select_file maps the result to None whatever its arguments.
MapsToNone(res) ==
    \A a \in ArgChoices : ReturnValue(a, res).kind = "None"

C13_Step ==
    /\ ActionQuit => Cancels /\ MapsToNone(result')
    /\ (KeyEscape /\ ~dialog) => Cancels /\ MapsToNone(result')
    /\ app' = "exited" => \A p \in CursorPaths :
          (SelectsFile(p) \/ SelectsFolder(p)) =>
              /\ ~Cancels
              /\ \A a \in ArgChoices : ReturnValue(a, result').kind # "None"

C13_Returned ==
    /\ (pc = "done" /\ outcome.kind = "None")
          => (result = None \/ AllNone(ResultInfo))
    /\ (pc = "done" /\ app = "exited" /\ AllNone(ResultInfo))
          => outcome.kind = "None"

\* C13 as stated: q or escape, in any state of the app, exits it with the
\* all-None result.  Escape does not when the sort dialog is open.
C13_Original ==
    [][(ActionQuit \/ KeyEscape) => Cancels]_vars

\* C13, corrected: action_quit exits with the all-None FileInfo in any state
\* of the app, a navigation in flight included; q always reaches it, escape
\* reaches it unless the sort dialog is open (then it closes the dialog).
\* select_file maps the all-None result to None for every combination of
\* its arguments, no selection, successful or failed, yields the all-None
\* result, and select_file returns None only for a cancellation or an app
\* without result.
C13_Cancellation == []C13_Returned /\ [][C13_Step]_vars

\* The app was cancelled while a navigation was in flight, and select_file
\* has returned None.
C13_Witness ==
    /\ pc = "done"
    /\ outcome.kind = "None"
    /\ is_navigating
    /\ worker.stage # "none"
    /\ result = Some(CancelInfo)

\* ---- C14
\* select_file has returned a value for a result that is no cancellation.
ReturnedValue ==
    /\ pc = "done"
    /\ app = "exited"
    /\ result # None
    /\ ~AllNone(ResultInfo)

\* C14: for a non-cancelled result select_file returns a plain string path
\* exactly when return_info is False (given, or defaulted because
\* select_dirs is False) and only files are selectable; in every other
\* combination of select_files, select_dirs and return_info it returns the
\* FileInfo object.
C14_ReturnKind ==
    ReturnedValue =>
        /\ outcome.kind \in {"str", "FileInfo"}
        /\ (outcome.kind = "str") <=>
              (~ReturnInfo(args) /\ args.select_files /\ ~args.select_dirs)

\* ---- C15
\* The arguments are invalid, judged on the file system of the call.
InvalidArgs(a) ==
    \/ a.start_path # <<>> /\ ~PathIsDir(fs, a.start_path)
    \/ a.start_path # <<>> /\ PathIsDir(fs, a.start_path)
          /\ Resolve(fs, a.start_path) \in fs.noList
    \/ ~a.select_files /\ ~a.select_dirs

C15_Step ==
    (pc = "idle" /\ pc' # "idle") =>
        /\ InvalidArgs(args') =>
              /\ pc' = "done"
              /\ outcome'.kind = "ValueError"
              /\ UNCHANGED <<sigint, original_sigint, app, result, tree,
                             navVars, sortVars, dialog, keys, walkVars>>
        /\ ~InvalidArgs(args') =>
              /\ app' = "running"
              /\ args'.start_path = <<>> => current_path' = Cwd

C17_Dropped ==
    (lastCd.called /\ lastCd.busy) => (~lastCd.changed /\ ~lastCd.started)

C17_OneFlight ==
    app = "running" =>
        /\ is_navigating <=> worker.stage # "none"
        /\ is_navigating => current_path = worker.target

C17_Step ==
    (app = "running" /\ is_navigating) => current_path' = current_path

\* C17: while a directory change is in flight, a further _change_directory
\* request from any action is dropped: _change_directory changes neither
\* current_path nor navigation_history nor history_position and starts no
\* worker, so at most one worker is in flight and current_path stays the
\* target of the accepted request until it completes.
C17_SingleFlight ==
    [](C17_Dropped /\ C17_OneFlight) /\ [][C17_Step]_vars

\* A request that would have been accepted (an existing directory other
\* than current_path, from action_go_back) was dropped during a navigation.
C17_Witness ==
    /\ lastCd.called
    /\ lastCd.busy
    /\ lastCd.valid
    /\ ~lastCd.same
    /\ lastCd.by = "go_back"
    /\ is_navigating
    /\ current_path = worker.target

\* ---- C18
C18_Rooted ==
    (app = "running" /\ ~is_navigating) =>
        (tree # NoTree /\ tree.root = current_path)

C18_Step ==
    WorkerMount => (tree'.root = worker.target /\ tree'.root = current_path)

C19_Refused ==
    (lastCd.called /\ (~lastCd.valid \/ lastCd.same)) =>
        (~lastCd.changed /\ ~lastCd.started)

C19_Step ==
    /\ (ActionGoParent /\ ParentPath(current_path) = current_path)
          => UNCHANGED <<current_path, navigation_history, history_position,
                         is_navigating, worker, loading>>
    /\ (keys' # keys /\ lastCd'.called /\ ~lastCd'.started /\ app' = "running")
          => UNCHANGED <<current_path, navigation_history, is_navigating,
                         worker, loading>>

\* C19: _change_directory to a path that does not exist, is no directory or
\* equals current_path leaves current_path, navigation_history,
\* history_position and _is_navigating unchanged and starts no worker;
\* action_go_parent at the file-system root changes nothing either.
C19_NoChange == []C19_Refused /\ [][C19_Step]_vars

\* Directory b was replaced by a file while the app was elsewhere, and a
\* request to go (back) to it was refused with no navigation in flight.
C19_Witness ==
    /\ lastCd.called
    /\ ~lastCd.valid
    /\ ~lastCd.busy
    /\ lastCd.new_path = <<1, 3>>
    /\ fs.kind[3] = "file"
    /\ app = "running"
    /\ ~is_navigating

\* ---- C20
C20_Settings ==
    (app = "running" /\ ~is_navigating) =>
        /\ tree # NoTree
        /\ tree.mode = current_sort_mode
        /\ tree.order = current_sort_order

C20_Step ==
    (DialogCancel \/ (KeyEscape /\ dialog)) => UNCHANGED <<sortVars, tree>>

C21_Gate ==
    (app = "exited" /\ result # None) =>
        /\ ~args.select_files => ResultInfo.file_path = None
        /\ ~args.select_dirs => ResultInfo.folder_path = None

C21_Step ==
    keys' # keys =>
        \A p \in CursorPaths :
            (ActionNavigateOrSelect(p) /\ tree # NoTree
                 /\ ~StatRaises(fs, p) /\ PathIsDir(fs, p))
               => (app' # "exited" /\ result' = result)

\* C21: with select_files False the app never exits with a result whose
\* file_path is set, with select_dirs False never with one whose
\* folder_path is set; Enter on a directory navigates into it and never
\* selects it.
C21_FlagsGate == []C21_Gate /\ [][C21_Step]_vars

\* With only directories selectable the user entered a directory with
\* Enter and then selected a folder with d.
C21_Witness ==
    /\ Selected
    /\ ~args.select_files
    /\ args.select_dirs
    /\ ResultInfo.folder_path # None
    /\ ResultInfo.file_path = None
    /\ lastCd.by = "enter"
    /\ lastCd.started

\* ---- C25
\* The handlers that call _change_directory with add_to_history True.
AddActions == {"go_parent", "go_home", "go_root", "enter"}

\* The step is an accepted navigation to a new location.
AcceptsNew ==
    /\ ~is_navigating
    /\ is_navigating'
    /\ lastCd'.by \in AddActions

\* The earlier history up to and including the previous position.
EarlierHistory == SubSeq(navigation_history, 1, history_position + 1)

C25_Step ==
    AcceptsNew =>
        /\ Last(navigation_history') = lastCd'.new_path
        /\ Last(navigation_history') = current_path'
        /\ history_position' = Len(navigation_history') - 1
        /\ Front(navigation_history') =
              IF Len(EarlierHistory) + 1 > max_history_size
              THEN Tail(EarlierHistory)
              ELSE EarlierHistory

\* C25: an accepted navigation to a new location discards the forward
\* history: the new path becomes the last entry of navigation_history,
\* history_position its index, and the entries before it are the earlier
\* history up to and including the previous position, minus the oldest
\* entry when the size limit was hit.
C25_ForwardDiscarded == [][C25_Step]_vars

\* After going back, a navigation to a new location was accepted and
\* discarded one forward entry: the history has two entries again.
C25_Witness ==
    /\ app = "running"
    /\ lastCd.by = "go_home"
    /\ lastCd.started
    /\ lastCd.cut = 1
    /\ navigation_history = <<Cwd, Home>>
    /\ history_position = 1

\* ---- C26
\* C26: in every state of the app 1 <= len(navigation_history) <=
\* max_history_size and 0 <= history_position <= len(navigation_history) - 1,
\* after any sequence of navigations and back/forward actions, dropped
\* requests included.
C26_HistoryBounds ==
    app # "none" =>
        /\ 1 <= Len(navigation_history)
        /\ Len(navigation_history) <= max_history_size
        /\ 0 <= history_position
        /\ history_position <= Len(navigation_history) - 1

\* The history is full, its oldest entry was dropped, and a back action
\* has been dropped during a navigation.
C26_Witness ==
    /\ app = "running"
    /\ Len(navigation_history) = max_history_size
    /\ navigation_history[1] # Cwd
    /\ lastCd.by = "go_back"
    /\ lastCd.busy
    /\ history_position < Len(navigation_history) - 1

\* ---- C29
\* C29: the history cursor always designates the directory being shown: in
\* every state navigation_history[history_position] == current_path, also
\* after back/forward actions issued while a navigation is in flight or
\* whose target directory no longer exists.
C29_CursorDesignates ==
    app # "none" => navigation_history[history_position + 1] = current_path

\* ---- C30
\* C30: when the result of the app carries an error_message, select_file
\* returns a value from which the error can be read, in every return mode;
\* it never returns only the path string of an errored result.
C30_ErrorVisible ==
    (pc = "done" /\ app = "exited" /\ result # None
        /\ ResultInfo.error_message # None) =>
        /\ outcome.kind = "FileInfo"
        /\ outcome.info.error_message = ResultInfo.error_message

\* ---- C24
C24_Accepted ==
    (lastCd.called /\ lastCd.valid /\ ~lastCd.same /\ ~lastCd.busy)
        => lastCd.started

C24_Resets ==
    (app = "running" /\ is_navigating)
        ~> (app # "running" \/ (~is_navigating /\ ~loading))

\* C24: every navigation _change_directory accepts eventually resets
\* _is_navigating and hides the loading indicator, whether the tree
\* replacement succeeds, raises or is cancelled; so navigation is never
\* blocked forever and a later request to a different existing directory
\* is accepted.
C24_NeverBlocked == []C24_Accepted /\ C24_Resets

\* A tree replacement raised after the old tree was removed, and a later
\* request has been accepted: its worker is queued with no tree mounted.
C24_Witness ==
    /\ app = "running"
    /\ is_navigating
    /\ lastCd.started
    /\ worker.stage = "queued"
    /\ tree = NoTree

\* ---- C28
\* What a top-level call on the literal path P finds with an empty cache.
FreshWalk(P) ==
    IF Resolve(fs, P) = 0 THEN 0
    ELSE Expected(fs, Resolve(fs, P), DEFAULT_MAX_ITEMS)

C28_Returned ==
    (Idle /\ last.tag # "none") => last.val = FreshWalk(last.path)

C28_Stored ==
    \A i \in 1..Len(cache) : cache[i].val = FreshWalk(cache[i].key)

\* C28: on an unchanged file system a top-level calculate_directory_size(P)
\* returns the same value whether the cache is empty or was populated by
\* earlier top-level calls on any paths: every value stored in the cache
\* for a path equals what a fresh top-level walk of that path returns.
C28_MemoAgrees == C28_Returned /\ C28_Stored

\* C22: an expanded node of an empty directory shows the <empty> placeholder:
\* once the empty content has been loaded the node has exactly one child, the
\* leaf labelled <empty> without data, and it keeps exactly that child in
\* every later state, in particular after any re-sort (change of the sort
\* mode or order, refresh_sorting, re-expansion of the node).
C22_Step ==
    node.children = <<Placeholder>> => node'.children = <<Placeholder>>
C22_PlaceholderKept == [][C22_Step]_vars

\* C23: after sort_children_by_mode, for every sort mode and for ascending
\* and descending order alike, all directory children of the node come
\* before all file children; within the directories and within the files
\* the entries are ordered by the key of the mode, ascending or descending
\* as selected.
C23_Ordered(info, order) ==
    \A i, j \in 1..Len(info) :
        i < j =>
            /\ ~(~info[i].is_dir /\ info[j].is_dir)
            /\ info[i].is_dir = info[j].is_dir =>
                   IF order = "desc"
                   THEN info[i].key.v >= info[j].key.v
                   ELSE info[i].key.v <= info[j].key.v
C23_Step ==
    (sorted' = "returned" /\ (node'.children # node.children \/ sorted' # sorted))
        => C23_Ordered(ChildrenInfo(fs, node'.children, tree_sort_mode'),
                       tree_sort_order')
C23_DirectoriesFirst == [][C23_Step]_vars

\* C27: sorting never fails: sort_children_by_mode completes without raising
\* in every sort mode (name, created, accessed, modified, size, extension and
\* an unknown mode, which falls back to the order by name), also when the
\* lstat of one or more children fails and those children take their
\* lower-cased label as key next to children whose key is a timestamp or a
\* size.
C27_SortCompletes == sorted # "TypeError"

====
